---- MODULE Spec2Model ----
(***************************************************************************)
(* A model of the x402 service: the payment gate (validatePayment), the    *)
(* metrics collector, the paid data routes of main(), the security and MCP *)
(* handlers, the TTL cache and the scoring routines.                        *)
(*                                                                         *)
(* Strings are TLA+ strings; Len, SubSeq and \o act on their characters.   *)
(* Money is counted in thousandths of a USDC (0.001 USDC = 1).             *)
(***************************************************************************)
EXTENDS Integers, Sequences, FiniteSets, TLC

VARIABLES
    receiver,             \* config.Receiver (RECEIVER_ADDRESS or the default)
    now,                  \* the wall clock, time.Now()
    requestsTotal,        \* Metrics.requestsTotal: endpoint -> count
    requestsByStatus,     \* Metrics.requestsByStatus: endpoint -> status -> count
    paymentsTotal,        \* Metrics.paymentsTotal
    paymentsByEndpoint,   \* Metrics.paymentsByEndpoint: endpoint -> count
    paymentAmountUSD,     \* Metrics.paymentAmountUSD, in thousandths of a USDC
    responseTimeBuckets,  \* Metrics.responseTimeBuckets: endpoint -> durations
    items,                \* Cache.items: key -> cacheItem
    heap,                 \* the *ContractScanResult objects allocated by Scan
    handled,              \* number of requests served so far
    last,                 \* the request served last, what its handler did, its response
    running,              \* goroutine -> the call on the cache it is in, and where
    written               \* key -> what the Sets completed on it stored, and when

metricsVars == <<requestsTotal, requestsByStatus, paymentsTotal,
                 paymentsByEndpoint, paymentAmountUSD, responseTimeBuckets>>
cacheVars == <<items, heap>>
callVars == <<running, written>>
vars == <<receiver, now, metricsVars, cacheVars, handled, last, callVars>>

(***************************************************************************)
(* Bounds of the model.                                                    *)
(***************************************************************************)
MaxRequests == 2

(***************************************************************************)
(* Character strings.                                                      *)
(***************************************************************************)
UpperLetters == "ABCDEFGHIJKLMNOPQRSTUVWXYZ"
LowerLetters == "abcdefghijklmnopqrstuvwxyz"

\* s[i-1:i], the i-th character of s as a string
At(s, i) == SubSeq(s, i, i)

\* unicode.ToLower on the upper-case letters
LowerOf ==
    [c \in {At(UpperLetters, i) : i \in 1..Len(UpperLetters)} |->
        At(LowerLetters, CHOOSE i \in 1..Len(UpperLetters) : At(UpperLetters, i) = c)]

\* unicode.ToLower on one character
ToLowerChar(c) == IF c \in DOMAIN LowerOf THEN LowerOf[c] ELSE c

\* strings.ToLower
RECURSIVE ToLower(_)
ToLower(s) ==
    IF Len(s) = 0 THEN ""
    ELSE ToLowerChar(At(s, 1)) \o ToLower(SubSeq(s, 2, Len(s)))

\* strings.HasPrefix
HasPrefix(s, p) == Len(s) >= Len(p) /\ SubSeq(s, 1, Len(p)) = p

(***************************************************************************)
(* The payment gate.                                                       *)
(***************************************************************************)
\* RECEIVER_ADDRESS values the service may be started with
Receivers == {"0xAbC", "0xabc"}

\* The X-Payment-Response header: absent (r.Header.Get gives ""), a string that
\* is no JWT, or a JWT carrying a payment claim and registered claims.  The
\* signature segment is never examined by the service; signed says whether it
\* would verify.
AbsentHeader ==
    [kind |-> "absent", amount |-> "", asset |-> "", receiver |-> "",
     network |-> "", expired |-> FALSE, signed |-> FALSE]
MalformedHeader ==
    [kind |-> "malformed", amount |-> "", asset |-> "", receiver |-> "",
     network |-> "", expired |-> FALSE, signed |-> FALSE]
EmptyClaimsHeader ==
    [kind |-> "jwt", amount |-> "", asset |-> "", receiver |-> "",
     network |-> "", expired |-> FALSE, signed |-> TRUE]
JwtHeaders ==
    [kind : {"jwt"},
     amount : {"0.001", "0.002", "0.005", "0.0010"},
     asset : {"USDC", "usdc"},
     receiver : {"0xAbC", "0xABC", "0xabd"},
     network : {"base", "ethereum"},
     expired : BOOLEAN,
     signed : BOOLEAN]
Headers == {AbsentHeader, MalformedHeader, EmptyClaimsHeader} \cup JwtHeaders

\* jwt.Parser.ParseUnverified(tokenString, &PaymentToken{}): splits and decodes
\* the token without checking the signature or validating the registered
\* claims; a string that is no well-formed JWT gives an error.
ParseUnverified(tokenString) ==
    IF tokenString.kind = "jwt"
    THEN [err |-> FALSE,
          claims |-> [Amount |-> tokenString.amount,
                      Asset |-> tokenString.asset,
                      Receiver |-> tokenString.receiver,
                      Network |-> tokenString.network,
                      Expired |-> tokenString.expired]]
    ELSE [err |-> TRUE,
          claims |-> [Amount |-> "", Asset |-> "", Receiver |-> "",
                      Network |-> "", Expired |-> FALSE]]

\* validatePayment comparing the receiver without lower-casing both sides
validatePayment_ExactReceiver(tokenString, expectedAmount, expectedAsset, expectedReceiver) ==
    LET parsed == ParseUnverified(tokenString)
        claims == parsed.claims
    IN  IF parsed.err THEN FALSE
        ELSE IF claims.Amount # expectedAmount THEN FALSE
        ELSE IF claims.Asset # expectedAsset THEN FALSE
        ELSE IF claims.Receiver # expectedReceiver THEN FALSE
        ELSE TRUE

\* validatePayment with the expiry check filled in where the code leaves it empty
validatePayment_ChecksExpiry(tokenString, expectedAmount, expectedAsset, expectedReceiver) ==
    LET parsed == ParseUnverified(tokenString)
        claims == parsed.claims
    IN  IF parsed.err THEN FALSE
        ELSE IF claims.Amount # expectedAmount THEN FALSE
        ELSE IF claims.Asset # expectedAsset THEN FALSE
        ELSE IF ToLower(claims.Receiver) # ToLower(expectedReceiver) THEN FALSE
        ELSE IF claims.Expired THEN FALSE
        ELSE TRUE

validatePayment(tokenString, expectedAmount, expectedAsset, expectedReceiver) ==
    LET parsed == ParseUnverified(tokenString)
        claims == parsed.claims
    IN  IF parsed.err THEN FALSE
        ELSE IF claims.Amount # expectedAmount THEN FALSE
        ELSE IF claims.Asset # expectedAsset THEN FALSE
        ELSE IF ToLower(claims.Receiver) # ToLower(expectedReceiver) THEN FALSE
        ELSE TRUE

\* ServiceConfig built by main()
ConfigAsset == "USDC"
ConfigNetwork == "base"

\* PaymentRequirement with the amounts taken from config.Price, as the
\* /.well-known/x402 document does, instead of the route's price
PaymentRequirement_ConfigPrice(price, description) ==
    [Scheme |-> "x402",
     Network |-> ConfigNetwork,
     MaxAmount |-> "0.001",
     MinAmount |-> "0.001",
     Asset |-> ConfigAsset,
     Receiver |-> receiver,
     Description |-> description]

PaymentRequirement(price, description) ==
    [Scheme |-> "x402",
     Network |-> ConfigNetwork,
     MaxAmount |-> price,
     MinAmount |-> price,
     Asset |-> ConfigAsset,
     Receiver |-> receiver,
     Description |-> description]

(***************************************************************************)
(* The metrics collector.  A Metrics value is the record of its fields; a  *)
(* Go map is a function whose domain is the set of keys present.           *)
(***************************************************************************)
Inc(map, key) ==
    IF key \in DOMAIN map THEN [map EXCEPT ![key] = @ + 1] ELSE map @@ (key :> 1)

\* "Keep last 1000 samples per endpoint"
MaxSamples == 1000

NewMetrics ==
    [requestsTotal |-> <<>>,
     requestsByStatus |-> <<>>,
     paymentsTotal |-> 0,
     paymentsByEndpoint |-> <<>>,
     paymentAmountUSD |-> 0,
     responseTimeBuckets |-> <<>>]

\* RecordRequest, with the endpoint's status map made anew on every call
RecordRequest_ResetsStatuses(m, endpoint, status) ==
    [m EXCEPT !.requestsTotal = Inc(@, endpoint),
              !.requestsByStatus =
                  [e \in DOMAIN @ \cup {endpoint} |->
                      IF e = endpoint THEN (status :> 1) ELSE @[e]]]

RecordRequest(m, endpoint, status) ==
    LET byStatus == IF endpoint \in DOMAIN m.requestsByStatus
                    THEN m.requestsByStatus[endpoint] ELSE <<>>
    IN  [m EXCEPT !.requestsTotal = Inc(@, endpoint),
                  !.requestsByStatus =
                      [e \in DOMAIN @ \cup {endpoint} |->
                          IF e = endpoint THEN Inc(byStatus, status) ELSE @[e]]]

RecordPayment(m, endpoint, amountUSD) ==
    [m EXCEPT !.paymentsTotal = @ + 1,
              !.paymentsByEndpoint = Inc(@, endpoint),
              !.paymentAmountUSD = @ + amountUSD]

\* RecordResponseTime, with the new sample dropped when the series is full
RecordResponseTime_DropsNewest(m, endpoint, duration) ==
    LET old == IF endpoint \in DOMAIN m.responseTimeBuckets
               THEN m.responseTimeBuckets[endpoint] ELSE <<>>
        appended == Append(old, duration)
        kept == IF Len(appended) > MaxSamples THEN old ELSE appended
    IN  [m EXCEPT !.responseTimeBuckets =
            [e \in DOMAIN @ \cup {endpoint} |-> IF e = endpoint THEN kept ELSE @[e]]]

RecordResponseTime(m, endpoint, duration) ==
    LET old == IF endpoint \in DOMAIN m.responseTimeBuckets
               THEN m.responseTimeBuckets[endpoint] ELSE <<>>
        appended == Append(old, duration)
        kept == IF Len(appended) > MaxSamples THEN Tail(appended) ELSE appended
    IN  [m EXCEPT !.responseTimeBuckets =
            [e \in DOMAIN @ \cup {endpoint} |-> IF e = endpoint THEN kept ELSE @[e]]]

(***************************************************************************)
(* The text of /metrics.  The output is the sequence of its lines; a line   *)
(* is its metric name, its labels and its value, a comment line its text.   *)
(* Durations are carried in milliseconds and amounts in thousandths, as     *)
(* everywhere.  Go ranges over a map in an order of its own choosing: the   *)
(* caller hands in an order for each range statement.                       *)
(***************************************************************************)
Line(name, endpoint, status, le, value) ==
    [name |-> name, endpoint |-> endpoint, status |-> status, le |-> le, value |-> value]

Comment(text) == Line(text, "", "", "", 0)

\* buckets := []float64{0.01, 0.025, 0.05, 0.1, 0.25, 0.5, 1, 2.5, 5, 10}, each
\* with its label as "%.3f" prints it
HistogramBuckets ==
    <<[le |-> "0.010", ms |-> 10], [le |-> "0.025", ms |-> 25],
      [le |-> "0.050", ms |-> 50], [le |-> "0.100", ms |-> 100],
      [le |-> "0.250", ms |-> 250], [le |-> "0.500", ms |-> 500],
      [le |-> "1.000", ms |-> 1000], [le |-> "2.500", ms |-> 2500],
      [le |-> "5.000", ms |-> 5000], [le |-> "10.000", ms |-> 10000]>>

\* the keys of a map in the order a range statement visits them
RangeOver(map, order) == SelectSeq(order, LAMBDA key : key \in DOMAIN map)

RECURSIVE Flatten(_)
Flatten(seqs) == IF seqs = <<>> THEN <<>> ELSE Head(seqs) \o Flatten(Tail(seqs))

\* sort.Float64s on the copy
RECURSIVE InsertSorted(_, _)
InsertSorted(sorted, t) ==
    IF sorted = <<>> THEN <<t>>
    ELSE IF t <= Head(sorted) THEN <<t>> \o sorted
    ELSE <<Head(sorted)>> \o InsertSorted(Tail(sorted), t)

RECURSIVE SortedCopy(_)
SortedCopy(times) ==
    IF times = <<>> THEN <<>>
    ELSE InsertSorted(SortedCopy(Tail(times)), Head(times))

RECURSIVE SumOfTimes(_)
SumOfTimes(sorted) == IF sorted = <<>> THEN 0 ELSE Head(sorted) + SumOfTimes(Tail(sorted))

\* the bucket's count, with only the samples above the bucket before it
BucketCount_OwnRangeOnly(sorted, bucket) ==
    Cardinality({i \in DOMAIN sorted :
                    /\ sorted[i] <= bucket
                    /\ \A k \in DOMAIN HistogramBuckets :
                          HistogramBuckets[k].ms < bucket => sorted[i] > HistogramBuckets[k].ms})

\* bucketCount := 0; for _, t := range sorted { if t <= bucket { bucketCount++ } }
BucketCount(sorted, bucket) ==
    Cardinality({i \in DOMAIN sorted : sorted[i] <= bucket})

\* the histogram of one endpoint; nothing for an empty series
HistogramLines(endpoint, times) ==
    IF Len(times) = 0 THEN <<>>
    ELSE LET sorted == SortedCopy(times)
             count == Len(sorted)
             sum == SumOfTimes(sorted)
         IN  [k \in DOMAIN HistogramBuckets |->
                 Line("x402_response_time_seconds_bucket", endpoint, "",
                      HistogramBuckets[k].le, BucketCount(sorted, HistogramBuckets[k].ms))]
             \o <<Line("x402_response_time_seconds_bucket", endpoint, "", "+Inf", count),
                  Line("x402_response_time_seconds_sum", endpoint, "", "", sum),
                  Line("x402_response_time_seconds_count", endpoint, "", "", count)>>

PrometheusFormat(m, uptime, order) ==
    LET totals == RangeOver(m.requestsTotal, order.total)
        byStatus == RangeOver(m.requestsByStatus, order.byStatus)
        payments == RangeOver(m.paymentsByEndpoint, order.payments)
        series == RangeOver(m.responseTimeBuckets, order.histogram)
    IN  <<Comment("# HELP x402_uptime_seconds Service uptime"),
          Comment("# TYPE x402_uptime_seconds gauge"),
          Line("x402_uptime_seconds", "", "", "", uptime),
          Comment("# HELP x402_requests_total Total requests by endpoint"),
          Comment("# TYPE x402_requests_total counter")>>
        \o [i \in DOMAIN totals |->
               Line("x402_requests_total", totals[i], "", "", m.requestsTotal[totals[i]])]
        \o <<Comment("# HELP x402_requests_by_status_total Requests by endpoint and status"),
             Comment("# TYPE x402_requests_by_status_total counter")>>
        \o Flatten([i \in DOMAIN byStatus |->
               LET statuses == RangeOver(m.requestsByStatus[byStatus[i]], order.statuses)
               IN  [j \in DOMAIN statuses |->
                       Line("x402_requests_by_status_total", byStatus[i], statuses[j], "",
                            m.requestsByStatus[byStatus[i]][statuses[j]])]])
        \o <<Comment("# HELP x402_payments_total Total successful payments"),
             Comment("# TYPE x402_payments_total counter"),
             Line("x402_payments_total", "", "", "", m.paymentsTotal),
             Comment("# HELP x402_payments_by_endpoint_total Payments by endpoint"),
             Comment("# TYPE x402_payments_by_endpoint_total counter")>>
        \o [i \in DOMAIN payments |->
               Line("x402_payments_by_endpoint_total", payments[i], "", "",
                    m.paymentsByEndpoint[payments[i]])]
        \o <<Comment("# HELP x402_payment_amount_usd_total Total payment amount in USD"),
             Comment("# TYPE x402_payment_amount_usd_total counter"),
             Line("x402_payment_amount_usd_total", "", "", "", m.paymentAmountUSD),
             Comment("# HELP x402_response_time_seconds Response time in seconds"),
             Comment("# TYPE x402_response_time_seconds histogram")>>
        \o Flatten([i \in DOMAIN series |->
               HistogramLines(series[i], m.responseTimeBuckets[series[i]])])

(***************************************************************************)
(* Upstream lookups of the data routes.  A float64 the code rounds to two  *)
(* decimals is carried as an integer number of hundredths.                 *)
(***************************************************************************)
\* Go's int(x) of the fraction a/b, b > 0: truncation toward zero
TruncDiv(a, b) == IF a >= 0 THEN a \div b ELSE -((-a) \div b)

\* p := 1; for i := 0; i < precision; i++ { p *= 10 }
RECURSIVE Pow10(_)
Pow10(precision) == IF precision <= 0 THEN 1 ELSE 10 * Pow10(precision - 1)

\* round(val, precision) for val = num/den, den > 0: float64(int(val*p+0.5))/p,
\* returned as the integer int(val*p+0.5), a number of 1/p-ths
round(num, den, precision) ==
    LET p == Pow10(precision)
    IN  TruncDiv(2 * num * p + den, 2 * den)

\* What the JSON-RPC node answers to eth_gasPrice.  The gas price is counted in
\* units of 100000 wei, so that one gwei is 10000 units.
RpcAnswers ==
    {[kind |-> "error", wei |-> 0],          \* http.Post or JSON decoding fails
     [kind |-> "no_result", wei |-> 0],      \* "result" is missing or no string
     [kind |-> "bad_hex", wei |-> 0],        \* strconv.ParseInt fails
     [kind |-> "ok", wei |-> 2500],          \* 0.25 gwei
     [kind |-> "ok", wei |-> 314159]}        \* 31.4159 gwei

fetchGasPrices(rpc) ==
    IF rpc.kind # "ok"
    THEN [err |-> TRUE, data |-> <<>>]
    ELSE [err |-> FALSE,
          data |-> [Timestamp |-> now,
                    Gas |-> [current |-> round(rpc.wei, 10000, 2),
                             safe |-> round(rpc.wei * 9, 10000 * 10, 2),
                             fast |-> round(rpc.wei * 12, 10000 * 10, 2)],
                    Unit |-> "gwei",
                    Source |-> "ethereum_mainnet"]]

\* What the beacon node answers to /eth/v1/beacon/states/head/validator_count
BeaconAnswers ==
    {[kind |-> "error", active |-> 0],       \* http.Get or JSON decoding fails
     [kind |-> "no_data", active |-> 0],     \* "data" is missing or no object
     [kind |-> "no_active", active |-> 0],   \* data.active is missing or no number
     [kind |-> "ok", active |-> 1048576],
     [kind |-> "ok", active |-> 960000]}

fetchValidatorData(beacon) ==
    IF beacon.kind \in {"error", "no_data"}
    THEN [err |-> TRUE, data |-> <<>>]
    ELSE LET activeValidators == IF beacon.kind = "ok" THEN beacon.active ELSE 0
             pendingDeposits == 0
             exitQueueHours == 0
             entryQueueHours == IF pendingDeposits > 0 THEN pendingDeposits \div 75 ELSE 0
         IN  [err |-> FALSE,
              data |-> [Timestamp |-> now,
                        Queue |-> [entry_wait_hours |-> entryQueueHours,
                                   exit_wait_hours |-> exitQueueHours,
                                   churn_limit_per_epoch |-> 8,
                                   churn_limit_per_day |-> 1800],
                        Active |-> activeValidators,
                        PendingDeposits |-> pendingDeposits]]

\* What the three exchanges answer: << >> for an error, or <<price in cents>>
ExchangeAnswers ==
    [coingecko : {<<>>, <<270000>>, <<270301>>},
     coinbase : {<<>>, <<270000>>},
     kraken : {<<>>, <<270000>>}]

RECURSIVE SumOver(_, _)
SumOver(f, keys) ==
    IF keys = {} THEN 0
    ELSE LET k == CHOOSE x \in keys : TRUE IN f[k] + SumOver(f, keys \ {k})

fetchETHPrice(ex) ==
    LET got == {name \in {"coingecko", "coinbase", "kraken"} : ex[name] # <<>>}
        sources == [name \in got |-> ex[name][1]]
    IN  IF got = {}
        THEN [err |-> TRUE, data |-> <<>>]
        ELSE LET sum == SumOver(sources, got)
                 average == round(sum, 100 * Cardinality(got), 2)
             IN  [err |-> FALSE,
                  data |-> [Timestamp |-> now,
                            Eth |-> average,
                            Sources |-> sources,
                            Average |-> average,
                            Change24h |-> 0]]

(***************************************************************************)
(* What a handler does, in order: the calls it makes and the response it   *)
(* writes.  A handler is a function from the request (and the answers of   *)
(* the upstreams it consults) to the list of its steps and its response;   *)
(* the action that serves the request applies the steps to the state.      *)
(***************************************************************************)
Ev(op, ep, s, n) == [op |-> op, ep |-> ep, s |-> s, n |-> n]

EvGate(ep, granted) == Ev("validatePayment", ep, IF granted THEN "true" ELSE "false", 0)
EvPayment(ep, amountUSD) == Ev("RecordPayment", ep, "", amountUSD)
EvCall(ep, callee) == Ev("call", ep, callee, 0)
EvWrite(ep, status) == Ev("write", ep, status, 0)
EvRequest(ep, status) == Ev("RecordRequest", ep, status, 0)
EvTime(ep, d) == Ev("RecordResponseTime", ep, "", d)

\* the upstream was not consulted
NotCalled == [kind |-> "not_called"]

\* time.Since(start), in milliseconds
Durations == {5, 2500}

(***************************************************************************)
(* main(): the routes of the data service.                                 *)
(***************************************************************************)
HandleHealth(d) ==
    [events |-> <<EvWrite("/health", "200"), EvRequest("/health", "200"), EvTime("/health", d)>>,
     status |-> 200,
     body |-> [status |-> "ok", service |-> "arithmos-x402", timestamp |-> now],
     up |-> NotCalled]

HandleWellKnown(d) ==
    [events |-> <<EvWrite("/.well-known/x402", "200"),
                  EvRequest("/.well-known/x402", "200"),
                  EvTime("/.well-known/x402", d)>>,
     status |-> 200,
     body |-> [version |-> "1.0",
               paymentRequirements |->
                   <<PaymentRequirement("0.001", "Arithmos API - Real-time Ethereum data")>>],
     up |-> NotCalled]

HandleRoot(d) ==
    [events |-> <<EvWrite("/", "200"), EvRequest("/", "200"), EvTime("/", d)>>,
     status |-> 200,
     body |-> [agent |-> "Arithmos Quillsworth", service |-> "x402 payment-enabled API"],
     up |-> NotCalled]

\* HandleApiGas answering 500 when fetchGasPrices fails instead of substituting estimates
HandleApiGas_PropagatesError(paymentHeader, rpc, d) ==
    LET price == "0.001"
        priceFloat == 1
    IN  IF paymentHeader.kind = "absent"
        THEN [events |-> <<EvWrite("/api/gas", "402"),
                           EvRequest("/api/gas", "402"),
                           EvTime("/api/gas", d)>>,
              status |-> 402,
              body |-> [error |-> "Payment required",
                        version |-> "x402/1.0",
                        payment |-> PaymentRequirement(price, "Get current Ethereum gas prices")],
              up |-> NotCalled]
        ELSE IF ~validatePayment(paymentHeader, price, ConfigAsset, receiver)
        THEN [events |-> <<EvGate("/api/gas", FALSE),
                           EvWrite("/api/gas", "402"),
                           EvRequest("/api/gas", "402"),
                           EvTime("/api/gas", d)>>,
              status |-> 402,
              body |-> [error |-> "Invalid or insufficient payment",
                        version |-> "x402/1.0"],
              up |-> NotCalled]
        ELSE LET fetched == fetchGasPrices(rpc)
                 gasData == IF fetched.err
                            THEN [Timestamp |-> now,
                                  Gas |-> [safe |-> 25, average |-> 35, fast |-> 50],
                                  Unit |-> "gwei",
                                  Source |-> "estimated"]
                            ELSE fetched.data
             IN  IF fetched.err
                 THEN [events |-> <<EvGate("/api/gas", TRUE),
                                    EvPayment("/api/gas", priceFloat),
                                    EvCall("/api/gas", "fetchGasPrices"),
                                    EvWrite("/api/gas", "500"),
                                    EvRequest("/api/gas", "500"),
                                    EvTime("/api/gas", d)>>,
                       status |-> 500,
                       body |-> [error |-> "upstream failure"],
                       up |-> rpc]
                 ELSE [events |-> <<EvGate("/api/gas", TRUE),
                                    EvPayment("/api/gas", priceFloat),
                                    EvCall("/api/gas", "fetchGasPrices"),
                                    EvWrite("/api/gas", "200"),
                                    EvRequest("/api/gas", "200"),
                                    EvTime("/api/gas", d)>>,
                       status |-> 200,
                       body |-> [data |-> gasData, payment_verified |-> TRUE],
                       up |-> rpc]

HandleApiGas(paymentHeader, rpc, d) ==
    LET price == "0.001"
        priceFloat == 1
    IN  IF paymentHeader.kind = "absent"
        THEN [events |-> <<EvWrite("/api/gas", "402"),
                           EvRequest("/api/gas", "402"),
                           EvTime("/api/gas", d)>>,
              status |-> 402,
              body |-> [error |-> "Payment required",
                        version |-> "x402/1.0",
                        payment |-> PaymentRequirement(price, "Get current Ethereum gas prices")],
              up |-> NotCalled]
        ELSE IF ~validatePayment(paymentHeader, price, ConfigAsset, receiver)
        THEN [events |-> <<EvGate("/api/gas", FALSE),
                           EvWrite("/api/gas", "402"),
                           EvRequest("/api/gas", "402"),
                           EvTime("/api/gas", d)>>,
              status |-> 402,
              body |-> [error |-> "Invalid or insufficient payment",
                        version |-> "x402/1.0"],
              up |-> NotCalled]
        ELSE LET fetched == fetchGasPrices(rpc)
                 gasData == IF fetched.err
                            THEN [Timestamp |-> now,
                                  Gas |-> [safe |-> 25, average |-> 35, fast |-> 50],
                                  Unit |-> "gwei",
                                  Source |-> "estimated"]
                            ELSE fetched.data
             IN  [events |-> <<EvGate("/api/gas", TRUE),
                               EvPayment("/api/gas", priceFloat),
                               EvCall("/api/gas", "fetchGasPrices"),
                               EvWrite("/api/gas", "200"),
                               EvRequest("/api/gas", "200"),
                               EvTime("/api/gas", d)>>,
                  status |-> 200,
                  body |-> [data |-> gasData, payment_verified |-> TRUE],
                  up |-> rpc]

\* HandleApiValidators calling RecordPayment ahead of the validatePayment check
HandleApiValidators_PaysBeforeGate(paymentHeader, beacon, d) ==
    LET price == "0.005"
        priceFloat == 5
    IN  IF paymentHeader.kind = "absent"
        THEN [events |-> <<EvWrite("/api/validators", "402"),
                           EvRequest("/api/validators", "402"),
                           EvTime("/api/validators", d)>>,
              status |-> 402,
              body |-> [error |-> "Payment required",
                        version |-> "x402/1.0",
                        payment |-> PaymentRequirement(price, "Get validator queue status")],
              up |-> NotCalled]
        ELSE IF ~validatePayment(paymentHeader, price, ConfigAsset, receiver)
        THEN [events |-> <<EvPayment("/api/validators", priceFloat),
                           EvGate("/api/validators", FALSE),
                           EvWrite("/api/validators", "402"),
                           EvRequest("/api/validators", "402"),
                           EvTime("/api/validators", d)>>,
              status |-> 402,
              body |-> [error |-> "Invalid or insufficient payment",
                        version |-> "x402/1.0"],
              up |-> NotCalled]
        ELSE LET fetched == fetchValidatorData(beacon)
                 validatorData == IF fetched.err
                                  THEN [Timestamp |-> now,
                                        Queue |-> [entry_wait_hours |-> 4,
                                                   exit_wait_hours |-> 2],
                                        Active |-> 1048576,
                                        PendingDeposits |-> 0]
                                  ELSE fetched.data
             IN  [events |-> <<EvGate("/api/validators", TRUE),
                               EvPayment("/api/validators", priceFloat),
                               EvCall("/api/validators", "fetchValidatorData"),
                               EvWrite("/api/validators", "200"),
                               EvRequest("/api/validators", "200"),
                               EvTime("/api/validators", d)>>,
                  status |-> 200,
                  body |-> [data |-> validatorData, payment_verified |-> TRUE],
                  up |-> beacon]

HandleApiValidators(paymentHeader, beacon, d) ==
    LET price == "0.005"
        priceFloat == 5
    IN  IF paymentHeader.kind = "absent"
        THEN [events |-> <<EvWrite("/api/validators", "402"),
                           EvRequest("/api/validators", "402"),
                           EvTime("/api/validators", d)>>,
              status |-> 402,
              body |-> [error |-> "Payment required",
                        version |-> "x402/1.0",
                        payment |-> PaymentRequirement(price, "Get validator queue status")],
              up |-> NotCalled]
        ELSE IF ~validatePayment(paymentHeader, price, ConfigAsset, receiver)
        THEN [events |-> <<EvGate("/api/validators", FALSE),
                           EvWrite("/api/validators", "402"),
                           EvRequest("/api/validators", "402"),
                           EvTime("/api/validators", d)>>,
              status |-> 402,
              body |-> [error |-> "Invalid or insufficient payment",
                        version |-> "x402/1.0"],
              up |-> NotCalled]
        ELSE LET fetched == fetchValidatorData(beacon)
                 validatorData == IF fetched.err
                                  THEN [Timestamp |-> now,
                                        Queue |-> [entry_wait_hours |-> 4,
                                                   exit_wait_hours |-> 2],
                                        Active |-> 1048576,
                                        PendingDeposits |-> 0]
                                  ELSE fetched.data
             IN  [events |-> <<EvGate("/api/validators", TRUE),
                               EvPayment("/api/validators", priceFloat),
                               EvCall("/api/validators", "fetchValidatorData"),
                               EvWrite("/api/validators", "200"),
                               EvRequest("/api/validators", "200"),
                               EvTime("/api/validators", d)>>,
                  status |-> 200,
                  body |-> [data |-> validatorData, payment_verified |-> TRUE],
                  up |-> beacon]

HandleApiPrice(paymentHeader, ex, d) ==
    LET price == "0.002"
        priceFloat == 2
    IN  IF paymentHeader.kind = "absent"
        THEN [events |-> <<EvWrite("/api/price", "402"),
                           EvRequest("/api/price", "402"),
                           EvTime("/api/price", d)>>,
              status |-> 402,
              body |-> [error |-> "Payment required",
                        version |-> "x402/1.0",
                        payment |-> PaymentRequirement(price,
                                        "Get ETH/USD price from multiple exchanges")],
              up |-> NotCalled]
        ELSE IF ~validatePayment(paymentHeader, price, ConfigAsset, receiver)
        THEN [events |-> <<EvGate("/api/price", FALSE),
                           EvWrite("/api/price", "402"),
                           EvRequest("/api/price", "402"),
                           EvTime("/api/price", d)>>,
              status |-> 402,
              body |-> [error |-> "Invalid or insufficient payment",
                        version |-> "x402/1.0"],
              up |-> NotCalled]
        ELSE LET fetched == fetchETHPrice(ex)
                 priceData == IF fetched.err
                              THEN [Timestamp |-> now,
                                    Eth |-> 270000,
                                    Sources |-> [fallback |-> 270000],
                                    Average |-> 270000,
                                    Change24h |-> 0]
                              ELSE fetched.data
             IN  [events |-> <<EvGate("/api/price", TRUE),
                               EvPayment("/api/price", priceFloat),
                               EvCall("/api/price", "fetchETHPrice"),
                               EvWrite("/api/price", "200"),
                               EvRequest("/api/price", "200"),
                               EvTime("/api/price", d)>>,
                  status |-> 200,
                  body |-> [data |-> priceData, payment_verified |-> TRUE],
                  up |-> ex]

(***************************************************************************)
(* Serving a request: the handler's steps applied to the shared state.     *)
(***************************************************************************)
Metrics ==
    [requestsTotal |-> requestsTotal,
     requestsByStatus |-> requestsByStatus,
     paymentsTotal |-> paymentsTotal,
     paymentsByEndpoint |-> paymentsByEndpoint,
     paymentAmountUSD |-> paymentAmountUSD,
     responseTimeBuckets |-> responseTimeBuckets]

ApplyEvent(m, e) ==
    IF e.op = "RecordRequest" THEN RecordRequest(m, e.ep, e.s)
    ELSE IF e.op = "RecordPayment" THEN RecordPayment(m, e.ep, e.n)
    ELSE IF e.op = "RecordResponseTime" THEN RecordResponseTime(m, e.ep, e.n)
    ELSE m

RECURSIVE ApplyEvents(_, _)
ApplyEvents(m, events) ==
    IF events = <<>> THEN m
    ELSE ApplyEvents(ApplyEvent(m, Head(events)), Tail(events))

NoRequest ==
    [route |-> "", header |-> AbsentHeader, input |-> <<>>, events |-> <<>>,
     status |-> 0, body |-> <<>>, up |-> NotCalled]

\* no request is being served, and the service may take another one
Idle == last = NoRequest /\ handled < MaxRequests

Serve(route, header, input, res) ==
    /\ handled' = handled + 1
    /\ LET m == ApplyEvents(Metrics, res.events)
       IN  /\ requestsTotal' = m.requestsTotal
           /\ requestsByStatus' = m.requestsByStatus
           /\ paymentsTotal' = m.paymentsTotal
           /\ paymentsByEndpoint' = m.paymentsByEndpoint
           /\ paymentAmountUSD' = m.paymentAmountUSD
           /\ responseTimeBuckets' = m.responseTimeBuckets
    /\ last' = [route |-> route, header |-> header, input |-> input,
                events |-> res.events, status |-> res.status,
                body |-> res.body, up |-> res.up]
    /\ UNCHANGED callVars

Health ==
    /\ Idle
    /\ \E d \in Durations :
        /\ Serve("/health", AbsentHeader, <<>>, HandleHealth(d))
        /\ UNCHANGED <<receiver, now, cacheVars>>

WellKnown ==
    /\ Idle
    /\ \E d \in Durations :
        /\ Serve("/.well-known/x402", AbsentHeader, <<>>, HandleWellKnown(d))
        /\ UNCHANGED <<receiver, now, cacheVars>>

Root ==
    /\ Idle
    /\ \E d \in Durations :
        /\ Serve("/", AbsentHeader, <<>>, HandleRoot(d))
        /\ UNCHANGED <<receiver, now, cacheVars>>

\* The answers an upstream can give to a handler: one of all when the handler
\* consults it, and none to choose from when it does not.
Consulted(res, answers) == IF res.up = NotCalled THEN {CHOOSE a \in answers : TRUE} ELSE answers

ApiGas ==
    /\ Idle
    /\ \E paymentHeader \in Headers, d \in Durations :
        \E rpc \in Consulted(HandleApiGas(paymentHeader, CHOOSE a \in RpcAnswers : TRUE, d),
                              RpcAnswers) :
            /\ Serve("/api/gas", paymentHeader, <<>>, HandleApiGas(paymentHeader, rpc, d))
            /\ UNCHANGED <<receiver, now, cacheVars>>

ApiValidators ==
    /\ Idle
    /\ \E paymentHeader \in Headers, d \in Durations :
        \E beacon \in Consulted(HandleApiValidators(paymentHeader,
                                                     CHOOSE a \in BeaconAnswers : TRUE, d),
                                 BeaconAnswers) :
            /\ Serve("/api/validators", paymentHeader, <<>>,
                     HandleApiValidators(paymentHeader, beacon, d))
            /\ UNCHANGED <<receiver, now, cacheVars>>

ApiPrice ==
    /\ Idle
    /\ \E paymentHeader \in Headers, d \in Durations :
        \E ex \in Consulted(HandleApiPrice(paymentHeader,
                                            CHOOSE a \in ExchangeAnswers : TRUE, d),
                             ExchangeAnswers) :
            /\ Serve("/api/price", paymentHeader, <<>>, HandleApiPrice(paymentHeader, ex, d))
            /\ UNCHANGED <<receiver, now, cacheVars>>

\* The handler returns: the request is over.
Return ==
    /\ last # NoRequest
    /\ last' = NoRequest
    /\ UNCHANGED <<receiver, now, metricsVars, cacheVars, handled, callVars>>

\* The goroutines that call the cache at the same time, and a goroutine in no call.
\* op is the method called; pc is where the goroutine is in it: "rlocked" and
\* "locked" hold c.mu, "scanning" is Scan between its cache.Get and its cache.Set.
Goroutines == {"g1", "g2"}

NoCall ==
    [op |-> "", pc |-> "idle", key |-> "", value |-> 0, found |-> FALSE,
     err |-> FALSE, at |-> 0, address |-> "", chain |-> ""]

InitShared ==
    /\ receiver \in Receivers
    /\ now = 0
    /\ requestsTotal = NewMetrics.requestsTotal
    /\ requestsByStatus = NewMetrics.requestsByStatus
    /\ paymentsTotal = NewMetrics.paymentsTotal
    /\ paymentsByEndpoint = NewMetrics.paymentsByEndpoint
    /\ paymentAmountUSD = NewMetrics.paymentAmountUSD
    /\ responseTimeBuckets = NewMetrics.responseTimeBuckets
    /\ items = <<>>
    /\ heap = <<>>
    /\ handled = 0
    /\ last = NoRequest
    /\ running = [g \in Goroutines |-> NoCall]
    /\ written = <<>>

Init == InitShared

Next ==
    \/ Health
    \/ WellKnown
    \/ Root
    \/ ApiGas
    \/ ApiValidators
    \/ ApiPrice
    \/ Return

Spec == Init /\ [][Next]_vars

(***************************************************************************)
(* More of the strings and strconv packages, for the security routines.    *)
(***************************************************************************)
\* strings.Contains
Contains(s, substr) ==
    \E i \in 1..(Len(s) - Len(substr) + 1) : SubSeq(s, i, i + Len(substr) - 1) = substr

\* strings.TrimPrefix
TrimPrefix(s, prefix) ==
    IF HasPrefix(s, prefix) THEN SubSeq(s, Len(prefix) + 1, Len(s)) ELSE s

\* strings.TrimLeft(s, c) for a cutset of the one character c
RECURSIVE TrimLeft(_, _)
TrimLeft(s, c) ==
    IF Len(s) > 0 /\ At(s, 1) = c THEN TrimLeft(SubSeq(s, 2, Len(s)), c) ELSE s

HexDigits == "0123456789abcdef"

IsHexDigit(c) == \E k \in 1..Len(HexDigits) : At(HexDigits, k) = ToLowerChar(c)

\* the value of one hexadecimal digit
HexDigitValue(c) == (CHOOSE k \in 1..Len(HexDigits) : At(HexDigits, k) = ToLowerChar(c)) - 1

\* a < b for two strings of hexadecimal digits without leading zeros, read as
\* numbers of any size
RECURSIVE HexLess(_, _)
HexLess(a, b) ==
    IF Len(a) # Len(b) THEN Len(a) < Len(b)
    ELSE IF Len(a) = 0 THEN FALSE
    ELSE IF At(a, 1) # At(b, 1) THEN HexDigitValue(At(a, 1)) < HexDigitValue(At(b, 1))
    ELSE HexLess(SubSeq(a, 2, Len(a)), SubSeq(b, 2, Len(b)))

MaxInt64Hex == "7fffffffffffffff"

\* strconv.ParseInt(s, 16, 64).  The value is carried as its sign and the
\* digits of its magnitude in lower case without leading zeros ("" is 0); a
\* syntax error gives 0 and a range error the nearest int64, as in Go.
ParseInt16(s) ==
    LET neg == Len(s) > 0 /\ At(s, 1) = "-"
        body == IF Len(s) > 0 /\ At(s, 1) \in {"-", "+"} THEN SubSeq(s, 2, Len(s)) ELSE s
        mag == TrimLeft(ToLower(body), "0")
    IN  IF Len(body) = 0 \/ \E i \in 1..Len(body) : ~IsHexDigit(At(body, i))
        THEN [err |-> "syntax", neg |-> FALSE, mag |-> ""]
        ELSE IF HexLess(MaxInt64Hex, mag)
        THEN [err |-> "range", neg |-> neg, mag |-> MaxInt64Hex]
        ELSE [err |-> "", neg |-> neg /\ mag # "", mag |-> mag]

\* v > limit for a parsed int64 v and a positive limit given by its digits
Int64Greater(v, limitHex) == ~v.neg /\ HexLess(limitHex, v.mag)

\* the int of a short string of hexadecimal digits
RECURSIVE HexValue(_)
HexValue(digits) ==
    IF Len(digits) = 0 THEN 0
    ELSE 16 * HexValue(SubSeq(digits, 1, Len(digits) - 1))
            + HexDigitValue(At(digits, Len(digits)))

(***************************************************************************)
(* The TTL cache.  items maps a key to a cacheItem: the value stored (a     *)
(* pointer, modelled as an index into heap) and its expiry.  The clock is   *)
(* counted in hours.                                                        *)
(***************************************************************************)
ScannerTTL == 24

\* Cache.Get without the comparison of the expiry with time.Now()
Get_IgnoresExpiry(key) ==
    IF key \notin DOMAIN items
    THEN [value |-> 0, found |-> FALSE]
    ELSE [value |-> items[key].value, found |-> TRUE]

\* Cache.Get
Get(key) ==
    IF key \notin DOMAIN items \/ now > items[key].expiresAt
    THEN [value |-> 0, found |-> FALSE]
    ELSE [value |-> items[key].value, found |-> TRUE]

\* Cache.Set keeping the entry a key already has: the first writer wins
Set_KeepsFirst(key, value) ==
    [k \in DOMAIN items \cup {key} |->
        IF k \in DOMAIN items THEN items[k]
        ELSE [value |-> value, expiresAt |-> now + ScannerTTL]]

\* Cache.Set: the items after the call
Set(key, value) ==
    [k \in DOMAIN items \cup {key} |->
        IF k = key THEN [value |-> value, expiresAt |-> now + ScannerTTL]
        ELSE items[k]]

(***************************************************************************)
(* ContractScanner.                                                        *)
(***************************************************************************)
\* What the explorer and honeypot services answer to one scan.
ExplorerAnswers ==
    {[verification |-> "verified", proxy |-> "plain", honeypot |-> "no"],
     [verification |-> "unverified", proxy |-> "plain", honeypot |-> "no"],
     [verification |-> "unverified", proxy |-> "proxy", honeypot |-> "yes"],
     [verification |-> "error", proxy |-> "error", honeypot |-> "error"]}

checkVerification(ex) ==
    [err |-> ex.verification = "error", verified |-> ex.verification = "verified"]

checkProxy(ex) ==
    [err |-> ex.proxy = "error", isProxy |-> ex.proxy = "proxy"]

checkHoneypotIndicators(ex) == ex.honeypot = "yes"

analyzeContractPatterns == <<>>

RECURSIVE SumScores(_)
SumScores(ps) == IF ps = <<>> THEN 0 ELSE Head(ps).score + SumScores(Tail(ps))

\* ContractScanner.Scan after a miss: the result it builds from the answers of
\* the explorer, for the normalized address, stamped with the time of the miss
ScanCompute(address, chain, ex, scannedAt) ==
    LET verification == checkVerification(ex)
        proxy == checkProxy(ex)
        unverified == ~verification.err /\ ~verification.verified
        hisHoneypot == checkHoneypotIndicators(ex)
        riskPatterns == analyzeContractPatterns
        total == (IF unverified THEN 30 ELSE 0) + (IF hisHoneypot THEN 50 ELSE 0)
                    + SumScores(riskPatterns)
        result ==
            [Address |-> address,
             Chain |-> chain,
             RiskScore |-> IF total > 100 THEN 100 ELSE total,
             IsVerified |-> ~verification.err /\ verification.verified,
             IsProxy |-> ~proxy.err /\ proxy.isProxy,
             IsHoneypot |-> hisHoneypot,
             Flags |-> (IF unverified THEN <<"unverified_contract">> ELSE <<>>)
                          \o (IF hisHoneypot THEN <<"honeypot_indicators">> ELSE <<>>),
             Warnings |-> (IF unverified
                           THEN <<"Contract source code is not verified">> ELSE <<>>)
                          \o (IF ~proxy.err /\ proxy.isProxy
                              THEN <<"Contract is a proxy - check implementation">>
                              ELSE <<>>)
                          \o (IF hisHoneypot
                              THEN <<"Honeypot patterns detected - extreme caution">>
                              ELSE <<>>),
             Cached |-> FALSE,
             ScannedAt |-> scannedAt]
    IN  result

\* the cache key, with the chain left out
CacheKey_IgnoresChain(chain, address) == "contract:" \o address

\* fmt.Sprintf("contract:%s:%s", chain, address)
CacheKey(chain, address) == "contract:" \o chain \o ":" \o address

\* ContractScanner.Scan: the error flag, the pointer returned, the object it
\* points to when Scan returns, and the cache and heap after the call.
Scan(address0, chain, ex) ==
    LET address == ToLower(address0)
        cacheKey == CacheKey(chain, address)
        cached == Get(cacheKey)
        result == ScanCompute(address, chain, ex, now)
    IN  IF ~HasPrefix(address, "0x")
        THEN [err |-> TRUE, hit |-> FALSE, ptr |-> 0, items |-> items, heap |-> heap,
              result |-> <<>>]
        ELSE IF cached.found
        THEN LET marked == [heap EXCEPT ![cached.value].Cached = TRUE]
             IN  [err |-> FALSE, hit |-> TRUE, ptr |-> cached.value,
                  items |-> items, heap |-> marked, result |-> marked[cached.value]]
        ELSE [err |-> FALSE, hit |-> FALSE, ptr |-> Len(heap) + 1,
              items |-> Set(cacheKey, Len(heap) + 1),
              heap |-> Append(heap, result), result |-> result]

(***************************************************************************)
(* AgentScorer.  failedRate is carried in thousandths and the feedback      *)
(* rating in tenths.                                                        *)
(***************************************************************************)
checkSecurityStack(agentID) == [hasStack |-> FALSE, factors |-> <<>>]

checkTransactionHistory(address) == [failedRate |-> 0, factors |-> <<>>]

check8004scanFeedback(agentID) == [rating |-> 0, regDays |-> 0, factors |-> <<>>]

\* AgentScorer.Score
Score(agentID) ==
    LET stack == checkSecurityStack(agentID)
        history == checkTransactionHistory(agentID)
        feedback == check8004scanFeedback(agentID)
        penalty == TruncDiv(history.failedRate * 50, 1000)
        bonus == TruncDiv(feedback.rating * 5, 10)
        s1 == IF stack.hasStack THEN 100 + 10 ELSE 100 - 20
        s2 == IF history.failedRate > 100 THEN s1 - penalty ELSE s1
        s3 == IF feedback.rating > 0 THEN s2 + bonus ELSE s2
        s4 == IF feedback.regDays < 30 THEN s3 - 10
              ELSE IF feedback.regDays > 180 THEN s3 + 5
              ELSE s3
        score == IF s4 > 100 THEN 100 ELSE IF s4 < 0 THEN 0 ELSE s4
    IN  [err |-> FALSE,
         result |-> [AgentID |-> agentID,
                     SecurityScore |-> score,
                     HasSecurityStack |-> stack.hasStack,
                     FailedTxRate |-> history.failedRate,
                     RegistrationDays |-> feedback.regDays,
                     FeedbackRating |-> feedback.rating,
                     ScoredAt |-> now]]

(***************************************************************************)
(* TxSimulator.                                                            *)
(***************************************************************************)
\* What the node answers to eth_getCode and eth_estimateGas.
NodeAnswers ==
    [code : {"error", "0x", "0x6080"},
     gas : {"error", "no_result", "0xzz", "0x5208", "0x65b9c"}]

\* TxSimulator.checkIsContract
checkIsContract(node) ==
    IF node.code = "error" THEN [err |-> TRUE, isContract |-> FALSE]
    ELSE [err |-> FALSE, isContract |-> node.code # "0x" /\ Len(node.code) > 2]

\* TxSimulator.analyzeTxData: the patterns found, in order
analyzeTxData(data) ==
    IF data = "" \/ data = "0x" THEN <<>>
    ELSE (IF /\ Contains(data, "0x095ea7b3")
             /\ Len(data) >= 74
             /\ LET amountHex == SubSeq(data, 75, Len(data))
                IN  TrimLeft(amountHex, "f") = "" \/ TrimLeft(amountHex, "F") = ""
          THEN <<[score |-> 30,
                  description |-> "Unlimited token approval detected - use specific amount instead"]>>
          ELSE <<>>)
         \o (IF Contains(data, "0x23b872dd")
             THEN <<[score |-> 10,
                     description |-> "transferFrom() call - verify sender has approved spending"]>>
             ELSE <<>>)

\* TxSimulator.estimateGas: the estimate with its 20% buffer.  The decimal
\* string the code formats and Simulate parses back is carried as the number.
estimateGas(node) ==
    IF node.gas \in {"error", "no_result"} THEN [err |-> TRUE, gas |-> 0]
    ELSE LET gasInt == ParseInt16(TrimPrefix(node.gas, "0x"))
         IN  IF gasInt.err # "" THEN [err |-> TRUE, gas |-> 0]
             ELSE [err |-> FALSE, gas |-> TruncDiv(HexValue(gasInt.mag) * 12, 10)]

\* float64(valueWei) / 1e18 > 1.0: the largest wei amount whose float64 is
\* still 1e18 is 1e18 + 64
OneEthFloatHex == "de0b6b3a7640040"

\* TxSimulator.Simulate
Simulate(tx, node) ==
    LET isContract == checkIsContract(node)
        riskPatterns == analyzeTxData(tx.Data)
        valueWei == ParseInt16(TrimPrefix(tx.Value, "0x"))
        largeValue ==
            /\ tx.Value # "" /\ tx.Value # "0" /\ tx.Value # "0x0"
            /\ valueWei.err = "" /\ valueWei.mag # "" /\ ~valueWei.neg
            /\ Int64Greater(valueWei, OneEthFloatHex)
        estimate == estimateGas(node)
        total == SumScores(riskPatterns)
                    + (IF largeValue THEN 10 ELSE 0)
                    + (IF estimate.err THEN 20
                       ELSE IF estimate.gas > 500000 THEN 5 ELSE 0)
    IN  IF tx.To = ""
        THEN [err |-> FALSE,
              result |-> [Safe |-> FALSE, RiskScore |-> 100, SimulationSuccess |-> FALSE,
                          GasEstimate |-> 0, Warnings |-> <<>>,
                          Errors |-> <<"Missing 'to' address">>,
                          Recommendations |-> <<>>, CheckedAt |-> now]]
        ELSE [err |-> FALSE,
              result |-> [Safe |-> ~(total >= 50),
                          RiskScore |-> IF total > 100 THEN 100 ELSE total,
                          SimulationSuccess |-> ~estimate.err,
                          GasEstimate |-> IF estimate.err THEN 0 ELSE estimate.gas,
                          Warnings |->
                              (IF ~isContract.err /\ isContract.isContract
                               THEN <<"Target is a smart contract - verify it's trusted">>
                               ELSE <<>>)
                              \o [i \in DOMAIN riskPatterns |-> riskPatterns[i].description]
                              \o (IF largeValue THEN <<"Large ETH transfer">> ELSE <<>>)
                              \o (IF ~estimate.err /\ estimate.gas > 500000
                                  THEN <<"High gas usage detected">> ELSE <<>>),
                          Errors |-> IF estimate.err
                                     THEN <<"Gas estimation failed">> ELSE <<>>,
                          Recommendations |->
                              (IF total >= 50
                               THEN <<"Transaction has high risk - review carefully">>
                               ELSE <<>>)
                              \o (IF total >= 30
                                  THEN <<"Consider using a test transaction first">>
                                  ELSE <<>>),
                          CheckedAt |-> now]]

(***************************************************************************)
(* PromptGuard.  A regular expression of NewPromptGuard is carried by what  *)
(* it matches: a list of alternatives, each a list of literal words joined  *)
(* by \s+ and matched without regard to case; or one of the three character *)
(* patterns.  The character "^" stands for a zero-width character of the    *)
(* class [\x{200B}-\x{200D}\x{2060}\x{FEFF}].                               *)
(***************************************************************************)
\* \s
IsSpace(c) == c \in {" ", "\t", "\n", "\r", "\f"}

WordChars == "abcdefghijklmnopqrstuvwxyzABCDEFGHIJKLMNOPQRSTUVWXYZ0123456789_"

\* \w
IsWordChar(c) == \E k \in 1..Len(WordChars) : At(WordChars, k) = c

\* the index after the run of whitespace that starts at i
RECURSIVE SkipSpaces(_, _)
SkipSpaces(s, i) == IF i <= Len(s) /\ IsSpace(At(s, i)) THEN SkipSpaces(s, i + 1) ELSE i

\* the index after the run of word characters that starts at i
RECURSIVE SkipWord(_, _)
SkipWord(s, i) == IF i <= Len(s) /\ IsWordChar(At(s, i)) THEN SkipWord(s, i + 1) ELSE i

\* word1\s+word2\s+... matches s at index i (s and the words in lower case)
RECURSIVE MatchWordsAt(_, _, _)
MatchWordsAt(s, i, words) ==
    LET w == Head(words)
        j == i + Len(w)
    IN  /\ j - 1 <= Len(s)
        /\ SubSeq(s, i, j - 1) = w
        /\ \/ Len(words) = 1
           \/ /\ SkipSpaces(s, j) > j
              /\ MatchWordsAt(s, SkipSpaces(s, j), Tail(words))

\* (?i)^(alt1|alt2|...): the alternatives tried at the start of s only
MatchAlternatives_Anchored(s, alternatives) ==
    LET lower == ToLower(s)
    IN  \E a \in DOMAIN alternatives :
            Len(s) >= 1 /\ MatchWordsAt(lower, 1, alternatives[a])

\* (?i)(alt1|alt2|...) matches somewhere in s
MatchAlternatives(s, alternatives) ==
    LET lower == ToLower(s)
    IN  \E a \in DOMAIN alternatives :
            \E i \in 1..Len(s) : MatchWordsAt(lower, i, alternatives[a])

\* [\x{200B}-\x{200D}\x{2060}\x{FEFF}] matches somewhere in s
MatchZeroWidth(s) == \E i \in 1..Len(s) : At(s, i) = "^"

\* [!?]{4,} matches somewhere in s
MatchPunctuation(s) ==
    \E i \in 1..(Len(s) - 3) : \A k \in 0..3 : At(s, i + k) \in {"!", "?"}

\* (?i)(\b\w+\b)(\s+\w+){2,} matches somewhere in s: a whole word, then twice
\* whitespace and word characters
MatchRepetition(s) ==
    \E i \in 1..Len(s) :
        /\ IsWordChar(At(s, i))
        /\ i = 1 \/ ~IsWordChar(At(s, i - 1))
        /\ LET e1 == SkipWord(s, i)
               b2 == SkipSpaces(s, e1)
               e2 == SkipWord(s, b2)
               b3 == SkipSpaces(s, e2)
           IN  /\ b2 > e1 /\ e2 > b2
               /\ b3 > e2 /\ b3 <= Len(s) /\ IsWordChar(At(s, b3))

\* regexp.Regexp.MatchString
MatchString(regex, s) ==
    IF regex.kind = "words" THEN MatchAlternatives(s, regex.alternatives)
    ELSE IF regex.kind = "zero_width" THEN MatchZeroWidth(s)
    ELSE IF regex.kind = "punctuation" THEN MatchPunctuation(s)
    ELSE MatchRepetition(s)

Words(alternatives) == [kind |-> "words", alternatives |-> alternatives]
CharPattern(kind) == [kind |-> kind, alternatives |-> <<>>]

InjectionPattern(name, regex, points, description) ==
    [Name |-> name, Regex |-> regex, RiskPoints |-> points, Description |-> description]

\* NewPromptGuard: the patterns, in the order Test applies them
NewPromptGuard ==
    <<InjectionPattern("ignore_instructions",
        Words(<< <<"ignore", "all", "previous", "instructions">>,
                 <<"ignore", "the", "above">>,
                 <<"disregard", "previous">>,
                 <<"forget", "previous">> >>),
        100, "Attempt to override previous instructions"),
      InjectionPattern("jailbreak_attempt",
        Words(<< <<"dan">>,
                 <<"do", "anything", "now">>,
                 <<"jailbreak">>,
                 <<"developer", "mode">>,
                 <<"sudo", "mode">>,
                 <<"admin", "terminal">> >>),
        100, "Known jailbreak pattern"),
      InjectionPattern("function_redefinition",
        Words(<< <<"redefine">>,
                 <<"change", "the", "meaning">>,
                 <<"now", "means">>,
                 <<"is", "now">>,
                 <<"from", "now", "on">> >>),
        80, "Attempt to redefine functions or terms"),
      InjectionPattern("authority_claim",
        Words(<< <<"system", "admin">>,
                 <<"developer">>,
                 <<"creator">>,
                 <<"owner">>,
                 <<"override">>,
                 <<"i", "am", "the">> >>),
        70, "False authority claim"),
      InjectionPattern("obfuscation",
        Words(<< <<"rot13">>,
                 <<"base64", "decode">>,
                 <<"encode", "this">>,
                 <<"${">>,
                 <<"{{">>,
                 <<"[[">> >>),
        60, "Possible obfuscation attempt"),
      InjectionPattern("token_manipulation",
        Words(<< <<"transfer", "all">>,
                 <<"send", "all">>,
                 <<"approve", "unlimited">>,
                 <<"drain", "wallet">> >>),
        60, "Token/wallet manipulation keywords"),
      InjectionPattern("social_engineering",
        Words(<< <<"trust", "me">>,
                 <<"i'm", "from", "support">>,
                 <<"internal", "audit">>,
                 <<"authorized", "personnel">>,
                 <<"emergency", "access">> >>),
        50, "Social engineering attempt"),
      InjectionPattern("unicode_obfuscation", CharPattern("zero_width"),
        70, "Invisible Unicode characters detected"),
      InjectionPattern("excessive_punctuation", CharPattern("punctuation"),
        20, "Excessive punctuation (possible aggression)"),
      InjectionPattern("repetition_pattern", CharPattern("repetition"),
        15, "Word repetition pattern")>>

RECURSIVE SumPoints(_)
SumPoints(ps) == IF ps = <<>> THEN 0 ELSE Head(ps).RiskPoints + SumPoints(Tail(ps))

\* the detection line Test formats for a pattern
Detection(pattern) == <<pattern.Name, pattern.Description, pattern.RiskPoints>>

IsDetection(pattern) == pattern.RiskPoints >= 70
IsWarning(pattern) == ~IsDetection(pattern)

\* Test without the cap on the risk score
Test_Uncapped(prompt) ==
    LET Matched(pattern) == MatchString(pattern.Regex, prompt)
        matched == SelectSeq(NewPromptGuard, Matched)
        detections == SelectSeq(matched, IsDetection)
        warnings == SelectSeq(matched, IsWarning)
        score == SumPoints(matched)
    IN  [Prompt |-> prompt,
         Safe |-> detections = <<>>,
         RiskScore |-> score,
         ThreatLevel |-> IF score >= 80 THEN "CRITICAL"
                         ELSE IF score >= 60 THEN "HIGH"
                         ELSE IF score >= 40 THEN "MEDIUM"
                         ELSE IF score >= 20 THEN "LOW"
                         ELSE "NONE",
         Patterns |-> [i \in DOMAIN matched |-> matched[i].Name],
         Detections |-> [i \in DOMAIN detections |-> Detection(detections[i])],
         Warnings |-> [i \in DOMAIN warnings |-> Detection(warnings[i])],
         TestedAt |-> now]

\* Test with the name of a pattern recorded in the detection branch only
Test_NamesDetectionsOnly(prompt) ==
    LET Matched(pattern) == MatchString(pattern.Regex, prompt)
        matched == SelectSeq(NewPromptGuard, Matched)
        detections == SelectSeq(matched, IsDetection)
    IN  [Test_Uncapped(prompt) EXCEPT
            !.RiskScore = IF @ > 100 THEN 100 ELSE @,
            !.Patterns = [i \in DOMAIN detections |-> detections[i].Name]]

\* Test leaving the loop at the first pattern that matches
Test_FirstMatch(prompt) ==
    LET Matched(pattern) == MatchString(pattern.Regex, prompt)
        matched == SelectSeq(NewPromptGuard, Matched)
        first == IF matched = <<>> THEN <<>> ELSE <<Head(matched)>>
        detections == SelectSeq(first, IsDetection)
        warnings == SelectSeq(first, IsWarning)
        total == SumPoints(first)
        score == IF total > 100 THEN 100 ELSE total
    IN  [Prompt |-> prompt,
         Safe |-> detections = <<>>,
         RiskScore |-> score,
         ThreatLevel |-> IF score >= 80 THEN "CRITICAL"
                         ELSE IF score >= 60 THEN "HIGH"
                         ELSE IF score >= 40 THEN "MEDIUM"
                         ELSE IF score >= 20 THEN "LOW"
                         ELSE "NONE",
         Patterns |-> [i \in DOMAIN first |-> first[i].Name],
         Detections |-> [i \in DOMAIN detections |-> Detection(detections[i])],
         Warnings |-> [i \in DOMAIN warnings |-> Detection(warnings[i])],
         TestedAt |-> now]

\* Test deriving the safe flag from the accumulated score
Test_SafeByScore(prompt) ==
    LET uncapped == Test_Uncapped(prompt)
    IN  [uncapped EXCEPT
            !.RiskScore = IF @ > 100 THEN 100 ELSE @,
            !.Safe = uncapped.RiskScore < 70]

\* the threat level switch of Test, with the cases tried lowest first
ThreatLevelOf_LowestFirst(score) ==
    IF score >= 20 THEN "LOW"
    ELSE IF score >= 40 THEN "MEDIUM"
    ELSE IF score >= 60 THEN "HIGH"
    ELSE IF score >= 80 THEN "CRITICAL"
    ELSE "NONE"

\* the threat level switch of Test
ThreatLevelOf(score) ==
    IF score >= 80 THEN "CRITICAL"
    ELSE IF score >= 60 THEN "HIGH"
    ELSE IF score >= 40 THEN "MEDIUM"
    ELSE IF score >= 20 THEN "LOW"
    ELSE "NONE"

\* PromptGuard.Test
Test(prompt) ==
    LET Matched(pattern) == MatchString(pattern.Regex, prompt)
        matched == SelectSeq(NewPromptGuard, Matched)
        detections == SelectSeq(matched, IsDetection)
        warnings == SelectSeq(matched, IsWarning)
        total == SumPoints(matched)
        score == IF total > 100 THEN 100 ELSE total
    IN  [Prompt |-> prompt,
         Safe |-> detections = <<>>,
         RiskScore |-> score,
         ThreatLevel |-> ThreatLevelOf(score),
         Patterns |-> [i \in DOMAIN matched |-> matched[i].Name],
         Detections |-> [i \in DOMAIN detections |-> Detection(detections[i])],
         Warnings |-> [i \in DOMAIN warnings |-> Detection(warnings[i])],
         TestedAt |-> now]

(***************************************************************************)
(* The token, wallet, label and MEV routines.                              *)
(***************************************************************************)
\* isValidAddress
isValidAddress(addr) == Len(addr) = 42 /\ HasPrefix(addr, "0x")

\* What the explorer answers to getabi: "" for an error, else the ABI text.
AbiAnswers == {"", "transfer", "mint", "blocked _mint", "mint blacklist implementation"}

\* fetchContractABI
fetchContractABI(abiAnswer) ==
    IF abiAnswer = "" THEN [err |-> TRUE, abi |-> ""] ELSE [err |-> FALSE, abi |-> abiAnswer]

\* getAPIKeyForChain, keys being the two keys of the environment
getAPIKeyForChain(keys, chain) == IF chain = "base" THEN keys.base ELSE keys.ethereum

\* scanToken
scanToken(address, chain, keys, abiAnswer) ==
    LET apiKey == getAPIKeyForChain(keys, chain)
        fetched == fetchContractABI(abiAnswer)
        abi == fetched.abi
        asked == apiKey # ""
        ok == asked /\ ~fetched.err
        hasMint == ok /\ (Contains(abi, "mint") \/ Contains(abi, "_mint"))
        hasBlacklist == ok /\ (Contains(abi, "blacklist") \/ Contains(abi, "blocked"))
        isProxy == ok /\ (Contains(abi, "delegatecall") \/ Contains(abi, "implementation"))
        total == (IF hasMint THEN 20 ELSE 0) + (IF hasBlacklist THEN 15 ELSE 0)
                    + (IF asked /\ fetched.err THEN 30 ELSE 0)
    IN  [Address |-> address,
         Chain |-> chain,
         RiskScore |-> IF total > 100 THEN 100 ELSE total,
         HasMintFunction |-> hasMint,
         HasBlacklist |-> hasBlacklist,
         IsProxy |-> isProxy,
         IsVerified |-> ok,
         Flags |-> (IF isProxy THEN <<"proxy_contract">> ELSE <<>>)
                      \o (IF asked /\ fetched.err THEN <<"unverified_contract">> ELSE <<>>),
         ScannedAt |-> now]

\* scanWallet: the mocked portfolio; USD amounts in cents
scanWallet(address, chain) ==
    LET holdings == <<[Address |-> "0x...", Symbol |-> "EXAMPLE", Name |-> "Example Token",
                       Balance |-> "1000", USDValue |-> 10000, RiskScore |-> 25,
                       IsSuspicious |-> FALSE]>>
        tokenCount == 5
        suspicious == Cardinality({i \in DOMAIN holdings : holdings[i].IsSuspicious})
        sum == LET RECURSIVE Sum(_)
                   Sum(hs) == IF hs = <<>> THEN 0 ELSE Head(hs).RiskScore + Sum(Tail(hs))
               IN  Sum(holdings)
        mean == IF tokenCount > 0 THEN TruncDiv(sum, tokenCount) ELSE sum
        total == IF suspicious > 0 THEN mean + suspicious * 10 ELSE mean
    IN  [Address |-> address,
         Chain |-> chain,
         ETHBalance |-> "0.5",
         TotalUSDValue |-> 125050,
         TokenCount |-> tokenCount,
         Holdings |-> holdings,
         SuspiciousTokens |-> suspicious,
         RiskScore |-> IF total > 100 THEN 100 ELSE total,
         ScannedAt |-> now]

\* knownLabels
knownLabels ==
    [a \in {"0x4200000000000000000000000000000000000006",
            "0x833589fcd6edb6e08f4c7c32d4f71b54bda02913"} |->
        IF a = "0x4200000000000000000000000000000000000006"
        THEN [Entity |-> "Wrapped Ether", Category |-> "contract", RiskLevel |-> "low"]
        ELSE [Entity |-> "USD Coin", Category |-> "contract", RiskLevel |-> "low"]]

\* lookupAddressLabel
lookupAddressLabel(address0) ==
    LET address == ToLower(address0)
    IN  IF address \in DOMAIN knownLabels
        THEN [Address |-> address,
              Entity |-> knownLabels[address].Entity,
              Category |-> knownLabels[address].Category,
              RiskLevel |-> knownLabels[address].RiskLevel,
              CheckedAt |-> now]
        ELSE [Address |-> address, Entity |-> "", Category |-> "unknown",
              RiskLevel |-> "medium", CheckedAt |-> now]

\* getCurrentGasPrice, in gwei
getCurrentGasPrice == 20

\* 1000000000000000000
OneEthHex == "de0b6b3a7640000"

swapSignatures == <<"0x38ed1739", "0x8803dbee", "0x7ff36ab5", "0x18cbafe5">>

\* checkMEVRisk
checkMEVRisk(req) ==
    LET valueWei == IF req.Value = "" THEN "0x0" ELSE req.Value
        value == ParseInt16(TrimPrefix(valueWei, "0x"))
        highValue == /\ valueWei # "0x0" /\ valueWei # "0"
                     /\ Int64Greater(value, OneEthHex)
        swap == /\ Len(req.Data) > 10
                /\ \E i \in DOMAIN swapSignatures : HasPrefix(req.Data, swapSignatures[i])
        gasPrice == getCurrentGasPrice
        total == (IF highValue THEN 20 ELSE 0)
                    + (IF swap THEN 30 ELSE 0)
                    + (IF gasPrice > 50 THEN 10 ELSE IF gasPrice > 20 THEN 5 ELSE 0)
    IN  [Safe |-> ~(total >= 50),
         MEVRiskScore |-> IF total > 100 THEN 100 ELSE total,
         RiskFactors |-> (IF highValue THEN <<"high_value_transfer">> ELSE <<>>)
                            \o (IF swap THEN <<"dex_swap_detected">> ELSE <<>>),
         SandwichRisk |-> IF swap THEN "medium" ELSE "low",
         FrontrunRisk |-> IF total >= 50 THEN "high"
                          ELSE IF total >= 30 THEN "medium" ELSE "low",
         GasPriceRisk |-> IF gasPrice > 50 THEN "high"
                          ELSE IF gasPrice > 20 THEN "medium" ELSE "low",
         RecommendedSlippage |-> IF swap THEN "0.1%" ELSE "0.5%",
         CheckedAt |-> now]

(***************************************************************************)
(* The security handlers.  Besides its steps and response a handler that   *)
(* scans gives the cache and heap it leaves behind.                         *)
(***************************************************************************)
\* a response of http.Error or of the JSON encoder, with no upstream consulted
Answer(events, status, body) ==
    [events |-> events, status |-> status, body |-> body, up |-> NotCalled,
     items |-> items, heap |-> heap]

\* handleContractScan
handleContractScan(req, ex, d) ==
    LET ep == "/api/scan-contract"
        chain == IF req.Chain = "" THEN "base" ELSE req.Chain
        scanned == Scan(req.Address, chain, ex)
    IN  IF ~req.decodes
        THEN Answer(<<EvWrite(ep, "400"), EvRequest(ep, "400")>>,
                    400, [error |-> "Invalid JSON"])
        ELSE IF req.Address = ""
        THEN Answer(<<EvWrite(ep, "400"), EvRequest(ep, "400")>>,
                    400, [error |-> "Missing address"])
        ELSE IF chain # "base" /\ chain # "ethereum"
        THEN Answer(<<EvWrite(ep, "400"), EvRequest(ep, "400")>>,
                    400, [error |-> "Invalid chain - use 'base' or 'ethereum'"])
        ELSE IF scanned.err
        THEN [events |-> <<EvCall(ep, "Scan"), EvWrite(ep, "500"), EvRequest(ep, "500")>>,
              status |-> 500,
              body |-> [error |-> "invalid address format"],
              up |-> NotCalled, items |-> scanned.items, heap |-> scanned.heap]
        ELSE [events |-> <<EvCall(ep, "Scan"), EvWrite(ep, "200"),
                           EvRequest(ep, "200"), EvTime(ep, d)>>,
              status |-> 200,
              body |-> [data |-> scanned.result, payment_verified |-> TRUE],
              up |-> IF scanned.hit THEN NotCalled ELSE ex,
              items |-> scanned.items, heap |-> scanned.heap]

\* handleAgentScore
handleAgentScore(req, d) ==
    LET ep == "/api/agent-score"
        scored == Score(req.AgentID)
    IN  IF ~req.decodes
        THEN Answer(<<EvWrite(ep, "400"), EvRequest(ep, "400")>>,
                    400, [error |-> "Invalid JSON"])
        ELSE IF req.AgentID = ""
        THEN Answer(<<EvWrite(ep, "400"), EvRequest(ep, "400")>>,
                    400, [error |-> "Missing agent_id"])
        ELSE IF scored.err
        THEN Answer(<<EvCall(ep, "Score"), EvWrite(ep, "500"), EvRequest(ep, "500")>>,
                    500, [error |-> "score failed"])
        ELSE Answer(<<EvCall(ep, "Score"), EvWrite(ep, "200"),
                      EvRequest(ep, "200"), EvTime(ep, d)>>,
                    200, [data |-> scored.result, payment_verified |-> TRUE])

\* handleTxPreflight
handleTxPreflight(req, node, d) ==
    LET ep == "/api/tx-preflight"
        simulated == Simulate(req, node)
    IN  IF ~req.decodes
        THEN Answer(<<EvWrite(ep, "400"), EvRequest(ep, "400")>>,
                    400, [error |-> "Invalid JSON"])
        ELSE IF simulated.err
        THEN Answer(<<EvCall(ep, "Simulate"), EvWrite(ep, "500"), EvRequest(ep, "500")>>,
                    500, [error |-> "simulation failed"])
        ELSE [Answer(<<EvCall(ep, "Simulate"), EvWrite(ep, "200"),
                       EvRequest(ep, "200"), EvTime(ep, d)>>,
                     200, [data |-> simulated.result, payment_verified |-> TRUE])
                EXCEPT !.up = IF req.To = "" THEN NotCalled ELSE node]

\* handlePromptTest
handlePromptTest(req, d) ==
    LET ep == "/api/prompt-test"
    IN  IF ~req.decodes
        THEN Answer(<<EvWrite(ep, "400"), EvRequest(ep, "400")>>,
                    400, [error |-> "Invalid JSON"])
        ELSE IF req.Prompt = ""
        THEN Answer(<<EvWrite(ep, "400"), EvRequest(ep, "400")>>,
                    400, [error |-> "Missing prompt"])
        ELSE Answer(<<EvCall(ep, "Test"), EvWrite(ep, "200"),
                      EvRequest(ep, "200"), EvTime(ep, d)>>,
                    200, [data |-> Test(req.Prompt), payment_verified |-> TRUE])

\* handleTokenScan; up is the environment's keys and the explorer's answer
handleTokenScan(req, up) ==
    LET ep == "handleTokenScan"
        chain == IF req.Chain = "" THEN "base" ELSE req.Chain
    IN  IF req.method # "POST"
        THEN Answer(<<EvWrite(ep, "405")>>, 405, [error |-> "Method not allowed"])
        ELSE IF ~req.decodes
        THEN Answer(<<EvWrite(ep, "400")>>, 400, [error |-> "Invalid JSON"])
        ELSE IF ~isValidAddress(req.Address)
        THEN Answer(<<EvWrite(ep, "400")>>, 400, [error |-> "Invalid address format"])
        ELSE IF chain # "base" /\ chain # "ethereum"
        THEN Answer(<<EvWrite(ep, "400")>>, 400,
                    [error |-> "Chain must be 'base' or 'ethereum'"])
        ELSE [Answer(<<EvCall(ep, "scanToken"), EvWrite(ep, "200")>>, 200,
                     [data |-> scanToken(req.Address, chain, up.keys, up.abi),
                      payment_verified |-> TRUE])
                EXCEPT !.up = up]

\* handleWalletScan
handleWalletScan(req) ==
    LET ep == "handleWalletScan"
        chain == IF req.Chain = "" THEN "base" ELSE req.Chain
    IN  IF req.method # "POST"
        THEN Answer(<<EvWrite(ep, "405")>>, 405, [error |-> "Method not allowed"])
        ELSE IF ~req.decodes
        THEN Answer(<<EvWrite(ep, "400")>>, 400, [error |-> "Invalid JSON"])
        ELSE IF ~isValidAddress(req.Address)
        THEN Answer(<<EvWrite(ep, "400")>>, 400, [error |-> "Invalid address format"])
        ELSE Answer(<<EvCall(ep, "scanWallet"), EvWrite(ep, "200")>>, 200,
                    [data |-> scanWallet(req.Address, chain), payment_verified |-> TRUE])

\* handleAddressLabel
handleAddressLabel(req) ==
    LET ep == "handleAddressLabel"
    IN  IF req.method # "POST"
        THEN Answer(<<EvWrite(ep, "405")>>, 405, [error |-> "Method not allowed"])
        ELSE IF ~req.decodes
        THEN Answer(<<EvWrite(ep, "400")>>, 400, [error |-> "Invalid JSON"])
        ELSE IF ~isValidAddress(req.Address)
        THEN Answer(<<EvWrite(ep, "400")>>, 400, [error |-> "Invalid address format"])
        ELSE Answer(<<EvCall(ep, "lookupAddressLabel"), EvWrite(ep, "200")>>, 200,
                    [data |-> lookupAddressLabel(req.Address), payment_verified |-> TRUE])

\* handleMEVCheck
handleMEVCheck(req) ==
    LET ep == "handleMEVCheck"
    IN  IF req.method # "POST"
        THEN Answer(<<EvWrite(ep, "405")>>, 405, [error |-> "Method not allowed"])
        ELSE IF ~req.decodes
        THEN Answer(<<EvWrite(ep, "400")>>, 400, [error |-> "Invalid JSON"])
        ELSE Answer(<<EvCall(ep, "checkMEVRisk"), EvWrite(ep, "200")>>, 200,
                    [data |-> checkMEVRisk(req), payment_verified |-> TRUE])

(***************************************************************************)
(* The MCP tool handlers.  An MCPResponse is written with status 200       *)
(* unless the handler sets another; Content carries the tool's result.      *)
(***************************************************************************)
MCPError(ep, calls, status, text) ==
    Answer(calls \o <<EvWrite(ep, status)>>,
           IF status = "400" THEN 400 ELSE IF status = "405" THEN 405 ELSE 200,
           [Content |-> text, IsError |-> TRUE])

MCPResult(ep, calls, result) ==
    Answer(calls \o <<EvWrite(ep, "200")>>, 200, [Content |-> result, IsError |-> FALSE])

\* args[key].(string): the string under key, "" when absent
Arg(args, key) == IF key \in DOMAIN args THEN args[key] ELSE ""

\* handleMCPGasPrices
handleMCPGasPrices(args, up) ==
    LET ep == "handleMCPCall"
        fetched == fetchGasPrices(up.rpc)
        calls == <<EvCall(ep, "fetchGasPrices")>>
    IN  IF fetched.err THEN MCPError(ep, calls, "200", "Error fetching gas prices")
        ELSE MCPResult(ep, calls, fetched.data)

\* handleMCPValidatorQueue
handleMCPValidatorQueue(args, up) ==
    LET ep == "handleMCPCall"
        fetched == fetchValidatorData(up.beacon)
        calls == <<EvCall(ep, "fetchValidatorData")>>
    IN  IF fetched.err THEN MCPError(ep, calls, "200", "Error fetching validator queue")
        ELSE MCPResult(ep, calls, fetched.data)

\* handleMCPScanToken
handleMCPScanToken(args, up) ==
    LET ep == "handleMCPCall"
        tokenAddress == Arg(args, "tokenAddress")
        chain == IF Arg(args, "chain") = "" THEN "base" ELSE Arg(args, "chain")
    IN  IF tokenAddress = ""
        THEN MCPError(ep, <<>>, "200", "Missing required parameter: tokenAddress")
        ELSE MCPResult(ep, <<EvCall(ep, "scanToken")>>,
                       scanToken(tokenAddress, chain, up.keys, up.abi))

\* handleMCPScanWallet
handleMCPScanWallet(args, up) ==
    LET ep == "handleMCPCall"
        walletAddress == Arg(args, "walletAddress")
        chain == IF Arg(args, "chain") = "" THEN "base" ELSE Arg(args, "chain")
    IN  IF walletAddress = ""
        THEN MCPError(ep, <<>>, "200", "Missing required parameter: walletAddress")
        ELSE MCPResult(ep, <<EvCall(ep, "scanWallet")>>, scanWallet(walletAddress, chain))

\* handleMCPAddressLabels
handleMCPAddressLabels(args, up) ==
    LET ep == "handleMCPCall"
        address == Arg(args, "address")
    IN  IF address = ""
        THEN MCPError(ep, <<>>, "200", "Missing required parameter: address")
        ELSE MCPResult(ep, <<EvCall(ep, "lookupAddressLabel")>>, lookupAddressLabel(address))

\* handleMCPMEVCheck
handleMCPMEVCheck(args, up) ==
    LET ep == "handleMCPCall"
        txData == Arg(args, "txData")
        to == Arg(args, "to")
        req == [From |-> Arg(args, "from"), To |-> to,
                Value |-> Arg(args, "value"), Data |-> txData]
    IN  IF txData = "" \/ to = ""
        THEN MCPError(ep, <<>>, "200", "Missing required parameters: txData and to")
        ELSE MCPResult(ep, <<EvCall(ep, "checkMEVRisk")>>, checkMEVRisk(req))

\* handleMCPEthPrice
handleMCPEthPrice(args, up) ==
    LET ep == "handleMCPCall"
        fetched == fetchETHPrice(up.ex)
        calls == <<EvCall(ep, "fetchETHPrice")>>
    IN  IF fetched.err THEN MCPError(ep, calls, "200", "Error fetching ETH price")
        ELSE MCPResult(ep, calls, [price_usd |-> fetched.data])

\* handleMCPPreflight
handleMCPPreflight(args, up) ==
    LET ep == "handleMCPCall"
        txData == Arg(args, "txData")
        to == Arg(args, "to")
        from == Arg(args, "from")
        req == [From |-> from, To |-> to, Value |-> Arg(args, "value"), Data |-> txData]
        simulated == Simulate(req, up.node)
        calls == <<EvCall(ep, "Simulate")>>
    IN  IF txData = "" \/ to = "" \/ from = ""
        THEN MCPError(ep, <<>>, "200", "Missing required parameters: txData, to, from")
        ELSE IF simulated.err
        THEN MCPError(ep, calls, "200", "Error simulating transaction")
        ELSE MCPResult(ep, calls, simulated.result)

\* handleMCPCall; up holds the answer of the one upstream the tool consults
handleMCPCall(req, up) ==
    LET ep == "handleMCPCall"
        res ==
            IF req.method # "POST"
            THEN Answer(<<EvWrite(ep, "405")>>, 405, [error |-> "Method not allowed"])
            ELSE IF ~req.decodes THEN MCPError(ep, <<>>, "400", "Invalid request")
            ELSE IF req.Tool = "get_gas_prices" THEN handleMCPGasPrices(req.Arguments, up)
            ELSE IF req.Tool = "get_validator_queue"
            THEN handleMCPValidatorQueue(req.Arguments, up)
            ELSE IF req.Tool = "scan_token" THEN handleMCPScanToken(req.Arguments, up)
            ELSE IF req.Tool = "scan_wallet" THEN handleMCPScanWallet(req.Arguments, up)
            ELSE IF req.Tool = "get_address_labels"
            THEN handleMCPAddressLabels(req.Arguments, up)
            ELSE IF req.Tool = "check_mev_risk" THEN handleMCPMEVCheck(req.Arguments, up)
            ELSE IF req.Tool = "get_eth_price" THEN handleMCPEthPrice(req.Arguments, up)
            ELSE IF req.Tool = "check_tx_preflight"
            THEN handleMCPPreflight(req.Arguments, up)
            ELSE MCPError(ep, <<>>, "400", "Unknown tool")
    IN  [res EXCEPT !.up = IF \E i \in DOMAIN res.events : res.events[i].op = "call"
                           THEN up ELSE NotCalled]

(***************************************************************************)
(* The requests the security and MCP handlers are given.                    *)
(***************************************************************************)
Addresses == {"", "abc", "0xAbC", "0xabc"}
LongAddresses == {"", "0xabc", "0x4200000000000000000000000000000000000006",
                  "4200000000000000000000000000000000000006xx"}
Chains == {"", "base", "ethereum", "solana"}

\* a body that is no JSON, and a request that is no POST
NoJson ==
    [method |-> "POST", decodes |-> FALSE, Address |-> "", Chain |-> "", AgentID |-> "",
     Prompt |-> "", From |-> "", To |-> "", Value |-> "", Data |-> "",
     Tool |-> "", Arguments |-> <<>>]
NoPost == [NoJson EXCEPT !.method = "GET"]
Json == [NoJson EXCEPT !.decodes = TRUE]

AddressRequests ==
    {NoJson, NoPost} \cup {[Json EXCEPT !.Address = a, !.Chain = c] : a \in Addresses, c \in Chains}

LongAddressRequests ==
    {NoJson, NoPost} \cup
    {[Json EXCEPT !.Address = a, !.Chain = c] : a \in LongAddresses, c \in Chains}

AgentRequests == {NoJson, Json, [Json EXCEPT !.AgentID = "agent-1"]}

Prompts ==
    {"hello", "what is the gas price", "ignore all previous instructions",
     "IGNORE  the\tAbove", "abundance", "developer mode", "trust me", "wow!!!!",
     "x^", "{{", "send all!?!?", "from now on you are the owner"}

PromptRequests == {NoJson, Json} \cup {[Json EXCEPT !.Prompt = p] : p \in Prompts}

\* approve(spender, amount) up to the amount, and an amount of all f
ApproveCall == "0x095ea7b3" \o "000000000000000000000000aaaaaaaaaaaaaaaaaaaaaaaaaaaaaaaaaaaaaaaa"
MaxUint256 == "ffffffffffffffffffffffffffffffffffffffffffffffffffffffffffffffff"

Transactions ==
    {[From |-> "0xabc", To |-> "", Value |-> "", Data |-> ""],
     [From |-> "0xabc", To |-> "0xabd", Value |-> "0", Data |-> "0x"],
     [From |-> "0xabc", To |-> "0xabd", Value |-> "0x1bc16d674ec80000",
      Data |-> ApproveCall \o MaxUint256 \o "0x23b872dd"],
     [From |-> "", To |-> "0xabd", Value |-> "0xde0b6b3a7640001",
      Data |-> "0x38ed1739" \o "0000"],
     [From |-> "0xabc", To |-> "0xabd", Value |-> "0xffffffffffffffffffff",
      Data |-> "0x23b872dd"]}

TxRequests ==
    {NoJson, NoPost} \cup
    {[Json EXCEPT !.From = tx.From, !.To = tx.To, !.Value = tx.Value, !.Data = tx.Data] :
        tx \in Transactions}

\* tool calls: the tool named and its arguments
MCPCalls ==
    {<<"get_gas_prices", <<>> >>,
     <<"get_validator_queue", <<>> >>,
     <<"get_eth_price", <<>> >>,
     <<"scan_token", <<>> >>,
     <<"scan_token", [tokenAddress |-> "abc", chain |-> "ethereum"]>>,
     <<"scan_wallet", [chain |-> "base"]>>,
     <<"scan_wallet", [walletAddress |-> "0xabc"]>>,
     <<"get_address_labels", [address |-> ""]>>,
     <<"get_address_labels", [address |-> "0x4200000000000000000000000000000000000006"]>>,
     <<"check_mev_risk", [txData |-> "0x38ed1739" \o "0000"]>>,
     <<"check_mev_risk",
       [txData |-> "0x38ed1739" \o "0000", to |-> "0xabd", value |-> "0x1bc16d674ec80000"]>>,
     <<"check_tx_preflight", [txData |-> ApproveCall \o MaxUint256, to |-> "0xabd"]>>,
     <<"check_tx_preflight",
       [txData |-> ApproveCall \o MaxUint256, to |-> "0xabd", from |-> "0xabc"]>>,
     <<"delete_everything", <<>> >>}

MCPRequests ==
    {NoJson, NoPost} \cup {[Json EXCEPT !.Tool = c[1], !.Arguments = c[2]] : c \in MCPCalls}

\* BASESCAN_API_KEY and ETHERSCAN_API_KEY, read from the environment on each call
ApiKeys == {[base |-> "", ethereum |-> ""], [base |-> "KEY", ethereum |-> "KEY"]}

\* The answers of the upstreams when none of them is consulted.
NoUpstream ==
    [rpc |-> CHOOSE a \in RpcAnswers : TRUE,
     beacon |-> CHOOSE a \in BeaconAnswers : TRUE,
     ex |-> CHOOSE a \in ExchangeAnswers : TRUE,
     keys |-> CHOOSE a \in ApiKeys : TRUE,
     abi |-> CHOOSE a \in AbiAnswers : TRUE,
     node |-> CHOOSE a \in NodeAnswers : TRUE]

\* the upstream answers that can tell two runs of a tool apart
UpstreamsOf(tool) ==
    IF tool = "get_gas_prices" THEN {[NoUpstream EXCEPT !.rpc = a] : a \in RpcAnswers}
    ELSE IF tool = "get_validator_queue"
    THEN {[NoUpstream EXCEPT !.beacon = a] : a \in BeaconAnswers}
    ELSE IF tool = "get_eth_price" THEN {[NoUpstream EXCEPT !.ex = a] : a \in ExchangeAnswers}
    ELSE IF tool = "scan_token"
    THEN {[NoUpstream EXCEPT !.keys = k, !.abi = a] : k \in ApiKeys, a \in AbiAnswers}
    ELSE IF tool = "check_tx_preflight"
    THEN {[NoUpstream EXCEPT !.node = a] : a \in NodeAnswers}
    ELSE {NoUpstream}

(***************************************************************************)
(* The security service: the security, token and MCP handlers over the      *)
(* shared metrics, cache and clock.  The handlers read no payment header;   *)
(* the requests here carry none.                                            *)
(***************************************************************************)
MaxTime == 25
TickSteps == {24, 25}

ServeScanning(route, input, res) ==
    /\ Serve(route, AbsentHeader, input, res)
    /\ items' = res.items
    /\ heap' = res.heap
    /\ UNCHANGED <<receiver, now>>

ContractScan ==
    /\ Idle
    /\ \E req \in AddressRequests, d \in Durations :
        \E ex \in Consulted(handleContractScan(req, CHOOSE a \in ExplorerAnswers : TRUE, d),
                             ExplorerAnswers) :
            ServeScanning("/api/scan-contract", req, handleContractScan(req, ex, d))

AgentScore ==
    /\ Idle
    /\ \E req \in AgentRequests, d \in Durations :
        ServeScanning("/api/agent-score", req, handleAgentScore(req, d))

TxPreflight ==
    /\ Idle
    /\ \E req \in TxRequests, d \in Durations :
        \E node \in Consulted(handleTxPreflight(req, CHOOSE a \in NodeAnswers : TRUE, d),
                               NodeAnswers) :
            ServeScanning("/api/tx-preflight", req, handleTxPreflight(req, node, d))

PromptTest ==
    /\ Idle
    /\ \E req \in PromptRequests, d \in Durations :
        ServeScanning("/api/prompt-test", req, handlePromptTest(req, d))

TokenScan ==
    /\ Idle
    /\ \E req \in LongAddressRequests :
        \E up \in Consulted(handleTokenScan(req, NoUpstream), UpstreamsOf("scan_token")) :
            ServeScanning("handleTokenScan", req, handleTokenScan(req, up))

WalletScan ==
    /\ Idle
    /\ \E req \in LongAddressRequests :
        ServeScanning("handleWalletScan", req, handleWalletScan(req))

AddressLabel ==
    /\ Idle
    /\ \E req \in LongAddressRequests :
        ServeScanning("handleAddressLabel", req, handleAddressLabel(req))

MEVCheck ==
    /\ Idle
    /\ \E req \in TxRequests :
        ServeScanning("handleMEVCheck", req, handleMEVCheck(req))

MCPCall ==
    /\ Idle
    /\ \E req \in MCPRequests :
        \E up \in Consulted(handleMCPCall(req, NoUpstream), UpstreamsOf(req.Tool)) :
            ServeScanning("handleMCPCall", req, handleMCPCall(req, up))

\* time passes
Tick ==
    /\ last = NoRequest
    /\ \E step \in TickSteps :
        /\ now + step <= MaxTime
        /\ now' = now + step
    /\ UNCHANGED <<receiver, metricsVars, cacheVars, handled, last, callVars>>

\* Cache.mu: a goroutine holds its write lock, a goroutine holds its read lock
WriteLocked == \E g \in DOMAIN running : running[g].pc = "locked"
ReadLocked == \E g \in Goroutines : running[g].pc = "rlocked"

\* Cache.cleanup, with every entry deleted
cleanup_ClearsAll ==
    /\ last = NoRequest
    /\ ~WriteLocked /\ ~ReadLocked
    /\ \E key \in DOMAIN items : now > items[key].expiresAt
    /\ items' = <<>>
    /\ UNCHANGED <<receiver, now, metricsVars, heap, handled, last, callVars>>

\* Cache.cleanup: one round of the ticker's loop
cleanup ==
    /\ last = NoRequest
    /\ ~WriteLocked /\ ~ReadLocked
    /\ \E key \in DOMAIN items : now > items[key].expiresAt
    /\ items' = [key \in {k \in DOMAIN items : ~(now > items[k].expiresAt)} |-> items[key]]
    /\ UNCHANGED <<receiver, now, metricsVars, heap, handled, last, callVars>>

NextSecurity ==
    \/ ContractScan
    \/ AgentScore
    \/ TxPreflight
    \/ PromptTest
    \/ TokenScan
    \/ WalletScan
    \/ AddressLabel
    \/ MEVCheck
    \/ MCPCall
    \/ Tick
    \/ cleanup
    \/ Return

SpecSecurity == Init /\ [][NextSecurity]_vars

(***************************************************************************)
(* The scoring routines called directly, on every input and every answer    *)
(* of their collaborators, over the shared cache and clock.                  *)
(***************************************************************************)
\* a routine was called with input and returned result
Called(routine, input, up, result) ==
    /\ handled' = handled + 1
    /\ last' = [route |-> routine, header |-> AbsentHeader, input |-> input,
                events |-> <<EvCall(routine, routine)>>, status |-> 0,
                body |-> result, up |-> up]
    /\ UNCHANGED <<receiver, now, metricsVars, callVars>>

CallTest ==
    /\ Idle
    /\ \E prompt \in Prompts \cup {""} :
        /\ Called("Test", prompt, NotCalled, Test(prompt))
        /\ UNCHANGED cacheVars

CallScan ==
    /\ Idle
    /\ \E address \in Addresses, chain \in Chains, ex \in ExplorerAnswers :
        LET scanned == Scan(address, chain, ex)
        IN  /\ Called("Scan", <<address, chain>>, ex, scanned.result)
            /\ items' = scanned.items
            /\ heap' = scanned.heap

CallScore ==
    /\ Idle
    /\ \E agentID \in {"", "agent-1"} :
        /\ Called("Score", agentID, NotCalled, Score(agentID).result)
        /\ UNCHANGED cacheVars

CallSimulate ==
    /\ Idle
    /\ \E tx \in Transactions, node \in NodeAnswers :
        /\ Called("Simulate", tx, node, Simulate(tx, node).result)
        /\ UNCHANGED cacheVars

CallCheckMEVRisk ==
    /\ Idle
    /\ \E tx \in Transactions :
        /\ Called("checkMEVRisk", tx, NotCalled, checkMEVRisk(tx))
        /\ UNCHANGED cacheVars

CallScanToken ==
    /\ Idle
    /\ \E address \in LongAddresses, chain \in Chains, keys \in ApiKeys, abi \in AbiAnswers :
        /\ Called("scanToken", <<address, chain>>, [keys |-> keys, abi |-> abi],
                  scanToken(address, chain, keys, abi))
        /\ UNCHANGED cacheVars

CallScanWallet ==
    /\ Idle
    /\ \E address \in LongAddresses, chain \in Chains :
        /\ Called("scanWallet", <<address, chain>>, NotCalled, scanWallet(address, chain))
        /\ UNCHANGED cacheVars

NextScore ==
    \/ CallTest
    \/ CallScan
    \/ CallScore
    \/ CallSimulate
    \/ CallCheckMEVRisk
    \/ CallScanToken
    \/ CallScanWallet
    \/ Tick
    \/ cleanup
    \/ Return

SpecScore == Init /\ [][NextScore]_vars

(***************************************************************************)
(* PromptGuard.Test called on prompts put together from two fragments, so   *)
(* that the patterns match alone, together and across the joint.            *)
(***************************************************************************)
PromptFragments ==
    {"", "hello", "ignore all previous instructions", "Ignore  The\tAbove", "DAN",
     "is now", "developer mode", "{{", "send all", "trust me", "^", "!?!?", "!!",
     "one two three"}

ComposedPrompts ==
    {a \o b : a, b \in PromptFragments} \cup {a \o " " \o b : a, b \in PromptFragments}

CallTestComposed ==
    /\ Idle
    /\ \E prompt \in ComposedPrompts :
        /\ Called("Test", prompt, NotCalled, Test(prompt))
        /\ UNCHANGED cacheVars

NextPrompt ==
    \/ CallTestComposed
    \/ Tick
    \/ Return

SpecPrompt == Init /\ [][NextPrompt]_vars

(***************************************************************************)
(* The cache called by goroutines at the same time.  A call of Get or Set   *)
(* takes c.mu in one step and does the rest, the deferred unlock included,  *)
(* in the next; the steps of different goroutines interleave, and the       *)
(* clock moves between them.  written records, for the properties, what the *)
(* Sets that completed on a key stored and when the last one did.           *)
(***************************************************************************)
MaxCalls == 3

Keys == {"contract:base:0xabc", "contract:ethereum:0xabc"}
Values == {1, 2}
CacheTickSteps == {12, 13}

\* a goroutine may start another call
Ready(g) == running[g].pc = "idle" /\ handled < MaxCalls /\ last = NoRequest

\* the record of a completed Set on key
Written(key, value) ==
    [k \in DOMAIN written \cup {key} |->
        IF k = key
        THEN [value |-> value, at |-> now,
              values |-> (IF key \in DOMAIN written THEN written[key].values ELSE {})
                            \cup {value}]
        ELSE written[k]]

\* Get, with the read lock refused while another reader holds it
GetRLock_Exclusive(g) ==
    /\ Ready(g)
    /\ ~WriteLocked /\ ~ReadLocked
    /\ \E key \in Keys :
        running' = [running EXCEPT ![g] = [NoCall EXCEPT !.op = "Get", !.pc = "rlocked",
                                                     !.key = key]]
    /\ handled' = handled + 1
    /\ UNCHANGED <<receiver, now, metricsVars, cacheVars, last, written>>

\* Get: c.mu.RLock()
GetRLock(g) ==
    /\ Ready(g)
    /\ ~WriteLocked
    /\ \E key \in Keys :
        running' = [running EXCEPT ![g] = [NoCall EXCEPT !.op = "Get", !.pc = "rlocked",
                                                     !.key = key]]
    /\ handled' = handled + 1
    /\ UNCHANGED <<receiver, now, metricsVars, cacheVars, last, written>>

\* Get: the lookup, the comparison with time.Now(), the deferred RUnlock
GetRead(g) ==
    /\ running[g].op = "Get" /\ running[g].pc = "rlocked"
    /\ LET got == Get(running[g].key)
       IN  running' = [running EXCEPT ![g].pc = "returned", ![g].value = got.value,
                                     ![g].found = got.found, ![g].at = now]
    /\ UNCHANGED <<receiver, now, metricsVars, cacheVars, handled, last, written>>

\* Set: c.mu.Lock()
SetLock(g) ==
    /\ Ready(g)
    /\ ~WriteLocked /\ ~ReadLocked
    /\ \E key \in Keys, value \in Values :
        running' = [running EXCEPT ![g] = [NoCall EXCEPT !.op = "Set", !.pc = "locked",
                                                     !.key = key, !.value = value]]
    /\ handled' = handled + 1
    /\ UNCHANGED <<receiver, now, metricsVars, cacheVars, last, written>>

\* Set: the assignment to the map, the deferred Unlock
SetWrite(g) ==
    /\ running[g].op = "Set" /\ running[g].pc = "locked"
    /\ items' = Set(running[g].key, running[g].value)
    /\ written' = Written(running[g].key, running[g].value)
    /\ running' = [running EXCEPT ![g].pc = "returned", ![g].at = now]
    /\ UNCHANGED <<receiver, now, metricsVars, heap, handled, last>>

\* the call returns to its caller
CallReturns(g) ==
    /\ running[g].pc = "returned"
    /\ running' = [running EXCEPT ![g] = NoCall]
    /\ UNCHANGED <<receiver, now, metricsVars, cacheVars, handled, last, written>>

\* time passes, also while calls are under way
TickCache ==
    /\ \E step \in CacheTickSteps :
        /\ now + step <= MaxTime
        /\ now' = now + step
    /\ UNCHANGED <<receiver, metricsVars, cacheVars, handled, last, callVars>>

CacheGet == \E g \in Goroutines : GetRLock(g) \/ GetRead(g)
CacheSet == \E g \in Goroutines : SetLock(g) \/ SetWrite(g)
CacheReturn == \E g \in Goroutines : CallReturns(g)

NextCache ==
    \/ CacheGet
    \/ CacheSet
    \/ CacheReturn
    \/ TickCache
    \/ cleanup

SpecCache == Init /\ [][NextCache]_vars

(***************************************************************************)
(* ContractScanner.Scan called by goroutines at the same time.  Between its *)
(* cache.Get and its cache.Set a Scan holds no lock: it asks the explorer   *)
(* and builds its result while other goroutines look up and store.          *)
(***************************************************************************)
ScanAddresses == {"abc", "0xAbC", "0xabc"}
ScanChains == {"base"}

\* the answers of the explorer to the scans under way: a verified contract,
\* an unverified proxy with honeypot indicators
ScanAnswers ==
    {ex \in ExplorerAnswers : ex.verification = "verified" \/ ex.honeypot = "yes"}

\* Scan up to the cache lookup, with the address checked only after the
\* explorer was asked
ScanLookup_ValidatesLate(g) ==
    /\ Ready(g)
    /\ ~WriteLocked
    /\ handled' = handled + 1
    /\ \E address0 \in ScanAddresses, chain \in ScanChains :
        LET address == ToLower(address0)
            cacheKey == CacheKey(chain, address)
            cached == Get(cacheKey)
            call == [NoCall EXCEPT !.op = "Scan", !.key = cacheKey, !.at = now,
                                   !.address = address, !.chain = chain]
        IN  IF ~HasPrefix(address, "0x")
            THEN /\ running' = [running EXCEPT ![g] =
                                    [call EXCEPT !.pc = "scanning", !.err = TRUE]]
                 /\ heap' = heap
            ELSE IF cached.found
            THEN /\ running' = [running EXCEPT ![g] =
                                    [call EXCEPT !.pc = "returned", !.found = TRUE,
                                                 !.value = cached.value]]
                 /\ heap' = [heap EXCEPT ![cached.value].Cached = TRUE]
            ELSE /\ running' = [running EXCEPT ![g] = [call EXCEPT !.pc = "scanning"]]
                 /\ heap' = heap
    /\ UNCHANGED <<receiver, now, metricsVars, items, last, written>>

\* Scan up to the cache lookup: the address check, cache.Get, and on a hit
\* the mark on the cached object and the return
ScanLookup(g) ==
    /\ Ready(g)
    /\ ~WriteLocked
    /\ handled' = handled + 1
    /\ \E address0 \in ScanAddresses, chain \in ScanChains :
        LET address == ToLower(address0)
            cacheKey == CacheKey(chain, address)
            cached == Get(cacheKey)
            call == [NoCall EXCEPT !.op = "Scan", !.key = cacheKey, !.at = now,
                                   !.address = address, !.chain = chain]
        IN  IF ~HasPrefix(address, "0x")
            THEN /\ running' = [running EXCEPT ![g] =
                                    [call EXCEPT !.pc = "returned", !.err = TRUE]]
                 /\ heap' = heap
            ELSE IF cached.found
            THEN /\ running' = [running EXCEPT ![g] =
                                    [call EXCEPT !.pc = "returned", !.found = TRUE,
                                                 !.value = cached.value]]
                 /\ heap' = [heap EXCEPT ![cached.value].Cached = TRUE]
            ELSE /\ running' = [running EXCEPT ![g] = [call EXCEPT !.pc = "scanning"]]
                 /\ heap' = heap
    /\ UNCHANGED <<receiver, now, metricsVars, items, last, written>>

\* Scan after the miss, with the entry kept when the key has got one meanwhile
ScanStore_KeepsExisting(g) ==
    /\ running[g].op = "Scan" /\ running[g].pc = "scanning"
    /\ ~WriteLocked /\ ~ReadLocked
    /\ \E ex \in ScanAnswers :
        LET result == ScanCompute(running[g].address, running[g].chain, ex, running[g].at)
            ptr == Len(heap) + 1
            kept == Get(running[g].key)
        IN  /\ heap' = Append(heap, result)
            /\ items' = IF kept.found THEN items ELSE Set(running[g].key, ptr)
            /\ written' = IF kept.found THEN written ELSE Written(running[g].key, ptr)
            /\ running' = [running EXCEPT ![g].pc = "returned", ![g].value = ptr]
    /\ UNCHANGED <<receiver, now, metricsVars, handled, last>>

\* Scan after the miss: the answers of the explorer, the result, cache.Set
ScanStore(g) ==
    /\ running[g].op = "Scan" /\ running[g].pc = "scanning"
    /\ ~WriteLocked /\ ~ReadLocked
    /\ \E ex \in ScanAnswers :
        LET result == ScanCompute(running[g].address, running[g].chain, ex, running[g].at)
            ptr == Len(heap) + 1
        IN  /\ heap' = Append(heap, result)
            /\ items' = Set(running[g].key, ptr)
            /\ written' = Written(running[g].key, ptr)
            /\ running' = [running EXCEPT ![g].pc = "returned", ![g].value = ptr]
    /\ UNCHANGED <<receiver, now, metricsVars, handled, last>>

ScanConcurrently == \E g \in Goroutines : ScanLookup(g) \/ ScanStore(g)

NextScan ==
    \/ ScanConcurrently
    \/ CacheReturn
    \/ TickCache
    \/ cleanup

SpecScan == Init /\ [][NextScan]_vars


(***************************************************************************)
(* The collector called by goroutines at the same time: the handlers of    *)
(* requests under way record, the /metrics server renders.  A record takes *)
(* m.mu and works under it, step by step, up to the deferred Unlock; the   *)
(* render takes the read lock.  written holds here, for each endpoint, how  *)
(* many RecordRequest calls have completed for it and the durations of the *)
(* RecordResponseTime calls that have, in the order they did.              *)
(***************************************************************************)
MaxRecords == 3

MetricEndpoints == {"/api/gas", "/health"}
MetricStatuses == {"200", "402"}
MetricAmounts == {1}

\* the endpoints whose handlers call RecordPayment
PaidEndpoints == {"/api/gas", "/api/validators", "/api/price"}

\* what has completed for the endpoint, and the record of one more call
Completed(ep) ==
    IF ep \in DOMAIN written THEN written[ep] ELSE [requests |-> 0, times |-> <<>>]
CompletedRequest(ep) ==
    [e \in DOMAIN written \cup {ep} |->
        IF e = ep THEN [Completed(ep) EXCEPT !.requests = @ + 1] ELSE written[e]]
CompletedTime(ep, duration) ==
    [e \in DOMAIN written \cup {ep} |->
        IF e = ep THEN [Completed(ep) EXCEPT !.times = Append(@, duration)] ELSE written[e]]

\* the orders a range over the endpoints, over the statuses may take
EndpointOrders == {<<"/api/gas", "/health">>, <<"/health", "/api/gas">>}
StatusOrders == {<<"200", "402">>, <<"402", "200">>}
RangeOrders ==
    [total : EndpointOrders, byStatus : EndpointOrders, statuses : StatusOrders,
     payments : EndpointOrders, histogram : EndpointOrders]

\* a call of the collector under way: its arguments, the counter it has read,
\* the text it returns
MetricCall(op, pc, endpoint, status, n) ==
    [op |-> op, pc |-> pc, key |-> endpoint, status |-> status, value |-> n,
     loaded |-> 0, output |-> <<>>]

\* Metrics.mu: a goroutine holds its write lock, a goroutine holds its read lock
MetricsWriteLocked == \E g \in Goroutines : running[g].pc \in {"mlocked", "stored"}
MetricsReadLocked == \E g \in Goroutines : running[g].pc = "mrlocked"

MetricsReady(g) == running[g].pc = "idle" /\ handled < MaxRecords /\ last = NoRequest

\* RecordRequest: m.mu.Lock(), and the read of m.requestsTotal[endpoint]
RecordRequestLock(g) ==
    /\ MetricsReady(g)
    /\ ~MetricsWriteLocked /\ ~MetricsReadLocked
    /\ \E endpoint \in MetricEndpoints, status \in MetricStatuses :
        running' = [running EXCEPT ![g] =
            [MetricCall("RecordRequest", "mlocked", endpoint, status, 0)
                EXCEPT !.loaded = IF endpoint \in DOMAIN requestsTotal
                                  THEN requestsTotal[endpoint] ELSE 0]]
    /\ handled' = handled + 1
    /\ UNCHANGED <<receiver, now, metricsVars, cacheVars, last, written>>

\* RecordRequest: the write of m.requestsTotal[endpoint], one more than read
RecordRequestStore(g) ==
    /\ running[g].op = "RecordRequest" /\ running[g].pc = "mlocked"
    /\ requestsTotal' =
           [e \in DOMAIN requestsTotal \cup {running[g].key} |->
               IF e = running[g].key THEN running[g].loaded + 1 ELSE requestsTotal[e]]
    /\ running' = [running EXCEPT ![g].pc = "stored"]
    /\ UNCHANGED <<receiver, now, requestsByStatus, paymentsTotal, paymentsByEndpoint,
                   paymentAmountUSD, responseTimeBuckets, cacheVars, handled, last,
                   written>>

\* RecordRequest: the endpoint's status map made when nil, its counter
\* incremented, the deferred Unlock
RecordRequestStatus(g) ==
    /\ running[g].op = "RecordRequest" /\ running[g].pc = "stored"
    /\ LET endpoint == running[g].key
           byStatus == IF endpoint \in DOMAIN requestsByStatus
                       THEN requestsByStatus[endpoint] ELSE <<>>
       IN  requestsByStatus' =
               [e \in DOMAIN requestsByStatus \cup {endpoint} |->
                   IF e = endpoint THEN Inc(byStatus, running[g].status)
                   ELSE requestsByStatus[e]]
    /\ written' = CompletedRequest(running[g].key)
    /\ running' = [running EXCEPT ![g].pc = "returned"]
    /\ UNCHANGED <<receiver, now, requestsTotal, paymentsTotal, paymentsByEndpoint,
                   paymentAmountUSD, responseTimeBuckets, cacheVars, handled, last>>

\* RecordPayment: m.mu.Lock()
RecordPaymentLock(g) ==
    /\ MetricsReady(g)
    /\ ~MetricsWriteLocked /\ ~MetricsReadLocked
    /\ \E endpoint \in MetricEndpoints \cap PaidEndpoints, amountUSD \in MetricAmounts :
        running' = [running EXCEPT ![g] =
            MetricCall("RecordPayment", "mlocked", endpoint, "", amountUSD)]
    /\ handled' = handled + 1
    /\ UNCHANGED <<receiver, now, metricsVars, cacheVars, last, written>>

\* RecordPayment: the three additions, the deferred Unlock
RecordPaymentWrite(g) ==
    /\ running[g].op = "RecordPayment" /\ running[g].pc = "mlocked"
    /\ LET m == RecordPayment(Metrics, running[g].key, running[g].value)
       IN  /\ paymentsTotal' = m.paymentsTotal
           /\ paymentsByEndpoint' = m.paymentsByEndpoint
           /\ paymentAmountUSD' = m.paymentAmountUSD
    /\ running' = [running EXCEPT ![g].pc = "returned"]
    /\ UNCHANGED <<receiver, now, requestsTotal, requestsByStatus, responseTimeBuckets,
                   cacheVars, handled, last, written>>

\* RecordResponseTime: m.mu.Lock()
RecordResponseTimeLock(g) ==
    /\ MetricsReady(g)
    /\ ~MetricsWriteLocked /\ ~MetricsReadLocked
    /\ \E endpoint \in MetricEndpoints, duration \in Durations :
        running' = [running EXCEPT ![g] =
            MetricCall("RecordResponseTime", "mlocked", endpoint, "", duration)]
    /\ handled' = handled + 1
    /\ UNCHANGED <<receiver, now, metricsVars, cacheVars, last, written>>

\* RecordResponseTime: the append, the cut to the last samples, the deferred
\* Unlock
RecordResponseTimeWrite(g) ==
    /\ running[g].op = "RecordResponseTime" /\ running[g].pc = "mlocked"
    /\ responseTimeBuckets' =
           RecordResponseTime(Metrics, running[g].key, running[g].value).responseTimeBuckets
    /\ written' = CompletedTime(running[g].key, running[g].value)
    /\ running' = [running EXCEPT ![g].pc = "returned"]
    /\ UNCHANGED <<receiver, now, requestsTotal, requestsByStatus, paymentsTotal,
                   paymentsByEndpoint, paymentAmountUSD, cacheVars, handled, last>>

\* PrometheusFormat, with the read lock taken whoever holds the write lock
FormatRLock_IgnoresWriter(g) ==
    /\ MetricsReady(g)
    /\ running' = [running EXCEPT ![g] = MetricCall("PrometheusFormat", "mrlocked", "", "", 0)]
    /\ handled' = handled + 1
    /\ UNCHANGED <<receiver, now, metricsVars, cacheVars, last, written>>

\* PrometheusFormat: m.mu.RLock()
FormatRLock(g) ==
    /\ MetricsReady(g)
    /\ ~MetricsWriteLocked
    /\ running' = [running EXCEPT ![g] = MetricCall("PrometheusFormat", "mrlocked", "", "", 0)]
    /\ handled' = handled + 1
    /\ UNCHANGED <<receiver, now, metricsVars, cacheVars, last, written>>

\* PrometheusFormat: the text built from the fields, the deferred RUnlock.  The
\* service started at hour 0; the uptime is printed in seconds.
FormatRender(g) ==
    /\ running[g].op = "PrometheusFormat" /\ running[g].pc = "mrlocked"
    /\ \E order \in RangeOrders :
        running' = [running EXCEPT ![g].pc = "returned",
                                   ![g].output = PrometheusFormat(Metrics, now * 3600, order)]
    /\ UNCHANGED <<receiver, now, metricsVars, cacheVars, handled, last, written>>

MetricsRecordRequest ==
    \E g \in Goroutines : RecordRequestLock(g) \/ RecordRequestStore(g) \/ RecordRequestStatus(g)
MetricsRecordPayment == \E g \in Goroutines : RecordPaymentLock(g) \/ RecordPaymentWrite(g)
MetricsRecordResponseTime ==
    \E g \in Goroutines : RecordResponseTimeLock(g) \/ RecordResponseTimeWrite(g)
MetricsFormat == \E g \in Goroutines : FormatRLock(g) \/ FormatRender(g)

NextMetrics ==
    \/ MetricsRecordRequest
    \/ MetricsRecordPayment
    \/ MetricsRecordResponseTime
    \/ MetricsFormat
    \/ CacheReturn

SpecMetrics == Init /\ [][NextMetrics]_vars

(***************************************************************************)
(* The response times of an endpoint that has served for a while: the      *)
(* collector holds for it a series at or just below its capacity, the      *)
(* sample recorded i-th being i milliseconds.                              *)
(***************************************************************************)
SeriesLengths == {MaxSamples - k : k \in 0..2}

InitSeries ==
    /\ receiver \in Receivers
    /\ now = 0
    /\ requestsTotal = NewMetrics.requestsTotal
    /\ requestsByStatus = NewMetrics.requestsByStatus
    /\ paymentsTotal = NewMetrics.paymentsTotal
    /\ paymentsByEndpoint = NewMetrics.paymentsByEndpoint
    /\ paymentAmountUSD = NewMetrics.paymentAmountUSD
    /\ \E n \in SeriesLengths :
        /\ responseTimeBuckets = ("/api/gas" :> [i \in 1..n |-> i])
        /\ written = ("/api/gas" :> [requests |-> 0, times |-> [i \in 1..n |-> i]])
    /\ items = <<>>
    /\ heap = <<>>
    /\ handled = 0
    /\ last = NoRequest
    /\ running = [g \in Goroutines |-> NoCall]

NextSeries ==
    \/ MetricsRecordResponseTime
    \/ CacheReturn

SpecSeries == InitSeries /\ [][NextSeries]_vars


(***************************************************************************)
(* The calls a request makes to its upstreams.  Each goes through an HTTP  *)
(* client: the scanner's and the scorer's own, made with a Timeout, or     *)
(* http.Get and http.Post, which use http.DefaultClient, whose Timeout is  *)
(* zero, that is none.  The upstream may answer, or never: only a client   *)
(* with a Timeout then gives the call up.                                  *)
(***************************************************************************)
\* &http.Client{Timeout: 10 * time.Second}, in seconds
ClientTimeout == 10
\* http.DefaultClient = &Client{}
DefaultClientTimeout == 0

UpstreamCalls ==
    {[callee |-> "RPCClient.call", timeout |-> DefaultClientTimeout],
     [callee |-> "fetchValidatorData", timeout |-> DefaultClientTimeout],
     [callee |-> "fetchCoinGeckoPrice", timeout |-> DefaultClientTimeout],
     [callee |-> "fetchCoinbasePrice", timeout |-> DefaultClientTimeout],
     [callee |-> "fetchKrakenPrice", timeout |-> DefaultClientTimeout],
     [callee |-> "fetchContractABI", timeout |-> DefaultClientTimeout],
     [callee |-> "checkVerification", timeout |-> ClientTimeout],
     [callee |-> "checkProxy", timeout |-> ClientTimeout],
     [callee |-> "checkHoneypotIndicators", timeout |-> ClientTimeout]}

\* the request is sent; the goroutine waits for the response
UpstreamCall(g) ==
    /\ Ready(g)
    /\ \E call \in UpstreamCalls :
        running' = [running EXCEPT ![g] =
            [NoCall EXCEPT !.op = call.callee, !.pc = "awaiting", !.value = call.timeout]]
    /\ handled' = handled + 1
    /\ UNCHANGED <<receiver, now, metricsVars, cacheVars, last, written>>

\* the upstream answers
UpstreamAnswers(g) ==
    /\ running[g].pc = "awaiting"
    /\ running' = [running EXCEPT ![g].pc = "returned", ![g].found = TRUE]
    /\ UNCHANGED <<receiver, now, metricsVars, cacheVars, handled, last, written>>

\* the client's Timeout elapses: the call returns an error
UpstreamTimesOut(g) ==
    /\ running[g].pc = "awaiting"
    /\ running[g].value > 0
    /\ running' = [running EXCEPT ![g].pc = "returned", ![g].err = TRUE]
    /\ UNCHANGED <<receiver, now, metricsVars, cacheVars, handled, last, written>>

Upstream == \E g \in Goroutines : UpstreamCall(g) \/ UpstreamAnswers(g) \/ UpstreamTimesOut(g)

NextUpstream ==
    \/ Upstream
    \/ CacheReturn

SpecUpstream == Init /\ [][NextUpstream]_vars


(***************************************************************************)
(* round called on its own.  A float64 is carried as (num/den) * 10^exp.   *)
(* int(x) is an int64: for an x beyond it Go leaves the result of the      *)
(* conversion to the implementation, the smallest int64 on amd64, the      *)
(* largest on arm64.  The result float64(int(x))/p is carried as the       *)
(* integer and p.                                                          *)
(***************************************************************************)
\* the largest int64, 9223372036854775807, has 19 digits
Int64Digits == 19

RoundNumerators == {0, 1, 5, 24, 25, 314159}
RoundDenominators == {1, 2, 10, 100000}
RoundPrecisions == 0..3

RoundValues ==
    {[num |-> n, den |-> d, exp |-> 0] : n \in RoundNumerators, d \in RoundDenominators}
    \cup {[num |-> n, den |-> d, exp |-> Int64Digits] :
             n \in {k \in RoundNumerators : k >= 5}, d \in {k \in RoundDenominators : k <= 5}}

\* val*p + 0.5 is 10^19 or more, which no int64 holds
BeyondInt64(val, precision) ==
    val.exp + precision >= Int64Digits /\ val.num >= val.den

\* what round(val, precision) may return
roundOutcomes(val, precision) ==
    IF BeyondInt64(val, precision)
    THEN {[overflow |-> TRUE, sign |-> s, units |-> 0, p |-> Pow10(precision)] :
             s \in {-1, 1}}
    ELSE {[overflow |-> FALSE, sign |-> 1,
           units |-> round(val.num * Pow10(val.exp), val.den, precision),
           p |-> Pow10(precision)]}

CallRound ==
    /\ Idle
    /\ \E val \in RoundValues, precision \in RoundPrecisions :
        \E result \in roundOutcomes(val, precision) :
            /\ Called("round", <<val, precision>>, NotCalled, result)
            /\ UNCHANGED cacheVars

NextRound ==
    \/ CallRound
    \/ Return

SpecRound == Init /\ [][NextRound]_vars


(***************************************************************************)
(* ContractScanner.Scan called again and again over time, on two chains and *)
(* with the address in either letter case, while entries expire and the     *)
(* sweep removes them.                                                      *)
(***************************************************************************)
KeyAddresses == {"0xAbC", "0xabc"}
KeyChains == {"base", "ethereum"}

CallScanKeyed ==
    /\ Idle
    /\ \E address \in KeyAddresses, chain \in KeyChains, ex \in ExplorerAnswers :
        LET scanned == Scan(address, chain, ex)
        IN  /\ Called("Scan", <<address, chain>>, ex, scanned.result)
            /\ items' = scanned.items
            /\ heap' = scanned.heap

NextKeyed ==
    \/ CallScanKeyed
    \/ Tick
    \/ cleanup
    \/ Return

SpecKeyed == Init /\ [][NextKeyed]_vars


(***************************************************************************)
(* The cache with the rounds of its sweep in two steps: the goroutine of   *)
(* cleanup takes c.mu and reads the clock, then deletes and unlocks.  The  *)
(* ticker fires whatever the traffic.                                      *)
(***************************************************************************)
Sweeper == "cleanup"

InitSweep ==
    /\ receiver \in Receivers
    /\ now = 0
    /\ requestsTotal = NewMetrics.requestsTotal
    /\ requestsByStatus = NewMetrics.requestsByStatus
    /\ paymentsTotal = NewMetrics.paymentsTotal
    /\ paymentsByEndpoint = NewMetrics.paymentsByEndpoint
    /\ paymentAmountUSD = NewMetrics.paymentAmountUSD
    /\ responseTimeBuckets = NewMetrics.responseTimeBuckets
    /\ items = <<>>
    /\ heap = <<>>
    /\ handled = 0
    /\ last = NoRequest
    /\ running = [g \in Goroutines \cup {Sweeper} |-> NoCall]
    /\ written = <<>>

\* cleanup: the ticker fires, c.mu.Lock(), now := time.Now()
SweepLock ==
    /\ running[Sweeper].pc = "idle"
    /\ ~WriteLocked /\ ~ReadLocked
    /\ running' = [running EXCEPT ![Sweeper] =
                      [NoCall EXCEPT !.op = "cleanup", !.pc = "locked", !.at = now]]
    /\ UNCHANGED <<receiver, now, metricsVars, cacheVars, handled, last, written>>

\* cleanup: the loop over the entries, c.mu.Unlock()
SweepDelete ==
    /\ running[Sweeper].pc = "locked"
    /\ items' = [key \in {k \in DOMAIN items : ~(running[Sweeper].at > items[k].expiresAt)}
                    |-> items[key]]
    /\ running' = [running EXCEPT ![Sweeper] = NoCall]
    /\ UNCHANGED <<receiver, now, metricsVars, heap, handled, last, written>>

Sweep == SweepLock \/ SweepDelete

NextSweep ==
    \/ CacheGet
    \/ CacheSet
    \/ CacheReturn
    \/ TickCache
    \/ Sweep

SpecSweep == InitSweep /\ [][NextSweep]_vars

(***************************************************************************)
(* Vocabulary of the properties: what is read off the request served last. *)
(***************************************************************************)
PaidRoutes == {"/api/gas", "/api/validators", "/api/price"}

\* the route's price, as the string of the requirement and as RecordPayment's amount
RoutePrice(route) ==
    IF route = "/api/gas" THEN "0.001" ELSE IF route = "/api/validators" THEN "0.005" ELSE "0.002"
RouteAmount(route) ==
    IF route = "/api/gas" THEN 1 ELSE IF route = "/api/validators" THEN 5 ELSE 2
RouteDescription(route) ==
    IF route = "/api/gas" THEN "Get current Ethereum gas prices"
    ELSE IF route = "/api/validators" THEN "Get validator queue status"
    ELSE "Get ETH/USD price from multiple exchanges"

\* the PaymentRequirement a caller of the route has to meet
RouteRequirement(route) ==
    [Scheme |-> "x402", Network |-> "base",
     MaxAmount |-> RoutePrice(route), MinAmount |-> RoutePrice(route),
     Asset |-> "USDC", Receiver |-> receiver,
     Description |-> RouteDescription(route)]

EventsOf(events, op) == {i \in DOMAIN events : events[i].op = op}

\* the outcome of the payment gate for a served request
Granted(r) == \E i \in EventsOf(r.events, "validatePayment") : r.events[i].s = "true"
Rejected(r) == \E i \in EventsOf(r.events, "validatePayment") : r.events[i].s = "false"
Challenged(r) ==
    /\ r.header.kind = "absent"
    /\ r.status = 402
    /\ EventsOf(r.events, "validatePayment") = {}

\* the orchestrators and upstream lookups a handler called
Calls(r) == {r.events[i].s : i \in EventsOf(r.events, "call")}

\* two character strings equal up to the case of their letters
SameIgnoringCase(a, b) ==
    /\ Len(a) = Len(b)
    /\ \A i \in 1..Len(a) :
          \/ At(a, i) = At(b, i)
          \/ \E k \in 1..Len(UpperLetters) :
                {At(a, i), At(b, i)} = {At(UpperLetters, k), At(LowerLetters, k)}

\* a step that serves a request
Serving == last = NoRequest /\ last' # NoRequest

PaymentCountOf(byEndpoint, ep) == IF ep \in DOMAIN byEndpoint THEN byEndpoint[ep] ELSE 0

(***************************************************************************)
(* C1.  On every route and tool that runs an analysis or a data lookup, the *)
(* orchestrator is called for a request only after validatePayment has      *)
(* granted that request.                                                    *)
(***************************************************************************)
C1_AnalysisOnlyAfterGranted ==
    \A i \in EventsOf(last.events, "call") :
        \E g \in EventsOf(last.events, "validatePayment") :
            g < i /\ last.events[g].s = "true"

(***************************************************************************)
(* C2.  On /api/gas, /api/validators and /api/price a request without a    *)
(* payment token is answered with the challenge: status 402 carrying the   *)
(* route's PaymentRequirement; no upstream is called for it and no payment *)
(* is recorded.                                                            *)
(***************************************************************************)
C2_Step ==
    (Serving /\ last'.route \in PaidRoutes /\ last'.header.kind = "absent") =>
        /\ Challenged(last')
        /\ "payment" \in DOMAIN last'.body
        /\ last'.body.payment = RouteRequirement(last'.route)
        /\ Calls(last') = {}
        /\ EventsOf(last'.events, "RecordPayment") = {}
        /\ paymentsTotal' = paymentsTotal
        /\ paymentsByEndpoint' = paymentsByEndpoint
        /\ paymentAmountUSD' = paymentAmountUSD
C2_NoTokenIsChallenged == [][C2_Step]_vars

C2_Witness ==
    /\ last.route = "/api/validators"
    /\ last.header.kind = "absent"
    /\ last.status = 402
    /\ paymentsTotal = 1

(***************************************************************************)
(* C3.  validatePayment grants exactly the tokens that decode and whose    *)
(* amount equals the required amount, whose asset equals the required      *)
(* asset (both exactly) and whose receiver equals the required receiver    *)
(* up to letter case: on every paid request that presents a token, and for *)
(* every token against every requirement.                                  *)
(***************************************************************************)
Matches(header, amount, asset, rcv) ==
    /\ header.kind = "jwt"
    /\ header.amount = amount
    /\ header.asset = asset
    /\ SameIgnoringCase(header.receiver, rcv)

C3_GrantedIffAllThreeMatch ==
    /\ (last.route \in PaidRoutes /\ last.header.kind # "absent") =>
          /\ Granted(last) <=> Matches(last.header, RoutePrice(last.route), "USDC", receiver)
          /\ Rejected(last) <=> ~Granted(last)
    /\ handled = 0 =>
          \A h \in Headers, amount \in {"0.001", "0.005", "0.002"},
             asset \in {"USDC", "usdc"}, rcv \in Receivers :
             validatePayment(h, amount, asset, rcv) <=> Matches(h, amount, asset, rcv)

\* the scenario of the specification: the receivers differ in case only
C3_Witness ==
    /\ last.route \in PaidRoutes
    /\ Granted(last)
    /\ last.header.receiver # receiver
    /\ last.status = 200

(***************************************************************************)
(* C4.  The decision of the gate depends on the decoded amount, asset and  *)
(* receiver only: any token that decodes to the same three fields as the   *)
(* one presented gets the decision the presented one got, whatever its     *)
(* expiry, network or signature; an expired token whose three fields match *)
(* is granted.                                                             *)
(***************************************************************************)
C4_DecisionIgnoresOtherClaims ==
    (last.route \in PaidRoutes /\ last.header.kind = "jwt") =>
        /\ \A other \in JwtHeaders :
              ( /\ other.amount = last.header.amount
                /\ other.asset = last.header.asset
                /\ other.receiver = last.header.receiver ) =>
                  ( validatePayment(other, RoutePrice(last.route), "USDC", receiver)
                      <=> Granted(last) )
        /\ ( /\ last.header.expired
             /\ Matches(last.header, RoutePrice(last.route), "USDC", receiver) ) =>
                  Granted(last)

C4_Witness ==
    /\ last.route = "/api/price"
    /\ last.header.kind = "jwt"
    /\ last.header.expired
    /\ ~last.header.signed
    /\ last.header.network = "ethereum"
    /\ Granted(last)
    /\ last.status = 200

(***************************************************************************)
(* C5.  On the paid data routes RecordPayment(endpoint, price) runs for a  *)
(* request exactly when the gate granted it, once, and before the response *)
(* is written; a challenged or rejected request leaves paymentsTotal,      *)
(* paymentsByEndpoint and paymentAmountUSD as they were.                   *)
(***************************************************************************)
C5_Step ==
    (Serving /\ last'.route \in PaidRoutes) =>
        LET r == last'
            pays == EventsOf(r.events, "RecordPayment")
            writes == EventsOf(r.events, "write")
        IN  /\ Granted(r) =>
                 /\ Cardinality(pays) = 1
                 /\ \A i \in pays :
                       /\ r.events[i].ep = r.route
                       /\ r.events[i].n = RouteAmount(r.route)
                       /\ \A w \in writes : i < w
                 /\ paymentsTotal' = paymentsTotal + 1
                 /\ PaymentCountOf(paymentsByEndpoint', r.route)
                       = PaymentCountOf(paymentsByEndpoint, r.route) + 1
                 /\ \A e \in (DOMAIN paymentsByEndpoint' \cup DOMAIN paymentsByEndpoint)
                                \ {r.route} :
                       PaymentCountOf(paymentsByEndpoint', e)
                          = PaymentCountOf(paymentsByEndpoint, e)
                 /\ paymentAmountUSD' = paymentAmountUSD + RouteAmount(r.route)
            /\ ~Granted(r) =>
                 /\ Challenged(r) \/ Rejected(r)
                 /\ pays = {}
                 /\ paymentsTotal' = paymentsTotal
                 /\ paymentsByEndpoint' = paymentsByEndpoint
                 /\ paymentAmountUSD' = paymentAmountUSD
C5_PaymentRecordedIffGranted == [][C5_Step]_vars

\* a granted request after a rejected one: one payment recorded in all
C5_Witness ==
    /\ last.route = "/api/validators"
    /\ Granted(last)
    /\ handled = 2
    /\ "/api/validators" \in DOMAIN requestsByStatus
    /\ "402" \in DOMAIN requestsByStatus["/api/validators"]
    /\ paymentsTotal = 1
    /\ paymentAmountUSD = 5

(***************************************************************************)
(* C6.  Every payment-related terminal response, the challenge and the     *)
(* rejection alike, includes the route's PaymentRequirement.               *)
(***************************************************************************)
C6_Every402CarriesRequirement ==
    (last.route \in PaidRoutes /\ last.status = 402) =>
        /\ "payment" \in DOMAIN last.body
        /\ last.body.payment = RouteRequirement(last.route)

(***************************************************************************)
(* C8.  Once the gate has granted a request, a failure of the upstream     *)
(* lookup is absorbed: the response is 200 with a data payload, never a    *)
(* 500, and the payload substituted on failure is none the lookup could    *)
(* have returned, so it can be told from live data.                        *)
(***************************************************************************)
Lookup(route, answer) ==
    IF route = "/api/gas" THEN fetchGasPrices(answer)
    ELSE IF route = "/api/validators" THEN fetchValidatorData(answer)
    ELSE fetchETHPrice(answer)

Answers(route) ==
    IF route = "/api/gas" THEN RpcAnswers
    ELSE IF route = "/api/validators" THEN BeaconAnswers
    ELSE ExchangeAnswers

LivePayloads(route) ==
    {Lookup(route, a).data : a \in {x \in Answers(route) : ~Lookup(route, x).err}}

MalformedScanInput(req) ==
    \/ ~req.decodes
    \/ req.Address = ""
    \/ ~HasPrefix(ToLower(req.Address), "0x")

C7_MalformedEndsBadInput ==
    (last.route = "/api/scan-contract" /\ MalformedScanInput(last.input)) =>
        /\ last.status = 400
        /\ "Scan" \notin Calls(last)

(***************************************************************************)
(* C9.  Every request to a metered route that is answered, whatever the     *)
(* status and also when the orchestrator failed, has a RecordRequest and a  *)
(* RecordResponseTime for its endpoint after the response is written.       *)
(***************************************************************************)
MeteredRoutes ==
    PaidRoutes \cup {"/health", "/.well-known/x402", "/",
                     "/api/scan-contract", "/api/agent-score",
                     "/api/tx-preflight", "/api/prompt-test"}

C9_EveryResponseMetered ==
    (last.route \in MeteredRoutes) =>
        \A w \in EventsOf(last.events, "write") :
            /\ \E i \in EventsOf(last.events, "RecordRequest") :
                  i > w /\ last.events[i].ep = last.route
            /\ \E i \in EventsOf(last.events, "RecordResponseTime") :
                  i > w /\ last.events[i].ep = last.route

(***************************************************************************)
(* C10.  The score returned by PromptGuard.Test, ContractScanner.Scan,      *)
(* AgentScorer.Score, TxSimulator.Simulate, checkMEVRisk, scanToken and     *)
(* scanWallet lies between 0 and 100 for every input and every answer of    *)
(* their collaborators; the score of Test is the sum of the points of the   *)
(* patterns it reports, or 100 when that sum is larger.                     *)
(***************************************************************************)
ScoringRoutines ==
    {"Test", "Scan", "Score", "Simulate", "checkMEVRisk", "scanToken", "scanWallet"}

\* the score in a result of the routine
ScoreOf(routine, result) ==
    IF routine = "Score" THEN result.SecurityScore
    ELSE IF routine = "checkMEVRisk" THEN result.MEVRiskScore
    ELSE result.RiskScore

\* the points NewPromptGuard gives the pattern of that name
PointsOf(name) ==
    LET i == CHOOSE k \in DOMAIN NewPromptGuard : NewPromptGuard[k].Name = name
    IN  NewPromptGuard[i].RiskPoints

RECURSIVE PointsOfAll(_)
PointsOfAll(names) ==
    IF names = <<>> THEN 0 ELSE PointsOf(Head(names)) + PointsOfAll(Tail(names))

C10_ScoresWithinRange ==
    (last.route \in ScoringRoutines /\ DOMAIN last.body # {}) =>
        /\ ScoreOf(last.route, last.body) \in 0..100
        /\ last.route = "Test" =>
              LET sum == PointsOfAll(last.body.Patterns)
              IN  last.body.RiskScore = IF sum > 100 THEN 100 ELSE sum

\* a prompt that matches patterns worth more than 100 points together
C10_Witness ==
    /\ last.route = "Test"
    /\ Len(last.body.Patterns) >= 2
    /\ PointsOfAll(last.body.Patterns) > 100
    /\ last.body.RiskScore = 100

(***************************************************************************)
(* C11.  Scoring is deterministic: a scoring routine evaluated again on the *)
(* input it was just given, with the same answers of its collaborators,     *)
(* returns the same result in every field but the timestamp, whatever was   *)
(* evaluated before.                                                        *)
(***************************************************************************)
TimestampFields == {"TestedAt", "ScannedAt", "ScoredAt", "CheckedAt"}

\* a result without the timestamp attached to it
WithoutTimestamp(result) == [f \in (DOMAIN result) \ TimestampFields |-> result[f]]

\* the routine of the call evaluated once more, in the state the call left
EvaluatedAgain(call) ==
    IF call.route = "Test" THEN Test(call.input)
    ELSE IF call.route = "Scan" THEN Scan(call.input[1], call.input[2], call.up).result
    ELSE IF call.route = "Score" THEN Score(call.input).result
    ELSE IF call.route = "Simulate" THEN Simulate(call.input, call.up).result
    ELSE IF call.route = "checkMEVRisk" THEN checkMEVRisk(call.input)
    ELSE IF call.route = "scanToken"
    THEN scanToken(call.input[1], call.input[2], call.up.keys, call.up.abi)
    ELSE scanWallet(call.input[1], call.input[2])

C11_ScoringIsDeterministic ==
    (last.route \in ScoringRoutines) =>
        WithoutTimestamp(EvaluatedAgain(last)) = WithoutTimestamp(last.body)

(***************************************************************************)
(* C12.  For every prompt the Patterns returned by PromptGuard.Test are     *)
(* exactly the names of the rules whose regular expression matches the      *)
(* prompt, each once and in the order of the rule table.                    *)
(***************************************************************************)
\* the place of the rule of that name in the table of NewPromptGuard, 0 if none
RuleIndex(name) ==
    IF \E k \in DOMAIN NewPromptGuard : NewPromptGuard[k].Name = name
    THEN CHOOSE k \in DOMAIN NewPromptGuard : NewPromptGuard[k].Name = name
    ELSE 0

\* the rules whose predicate is true of the prompt
MatchingRules(prompt) ==
    {k \in DOMAIN NewPromptGuard : MatchString(NewPromptGuard[k].Regex, prompt)}

C12_PatternsAreExactlyTheMatches ==
    (last.route = "Test") =>
        LET ps == last.body.Patterns
        IN  /\ {RuleIndex(ps[i]) : i \in DOMAIN ps} = MatchingRules(last.input)
            /\ \A i, j \in DOMAIN ps : i < j => RuleIndex(ps[i]) < RuleIndex(ps[j])

\* a prompt that four rules match and six do not
C12_Witness ==
    /\ last.route = "Test"
    /\ last.input = "is now developer mode"
    /\ last.body.Patterns = <<"jailbreak_attempt", "function_redefinition",
                              "authority_claim", "repetition_pattern">>

(***************************************************************************)
(* C13.  The score is accumulated over all matching rules, not the first:   *)
(* for every prompt PromptGuard.Test returns as RiskScore the sum of the    *)
(* RiskPoints of every rule that matches the prompt, or 100 when that sum   *)
(* is larger.                                                               *)
(***************************************************************************)
RECURSIVE SumRulePoints(_)
SumRulePoints(rules) ==
    IF rules = {} THEN 0
    ELSE LET k == CHOOSE r \in rules : TRUE
         IN  NewPromptGuard[k].RiskPoints + SumRulePoints(rules \ {k})

C13_ScoreSumsEveryMatch ==
    (last.route = "Test") =>
        LET sum == SumRulePoints(MatchingRules(last.input))
        IN  last.body.RiskScore = IF sum < 100 THEN sum ELSE 100

\* two rules match and their points add up below the cap
C13_Witness ==
    /\ last.route = "Test"
    /\ last.input = "trust me!?!?"
    /\ Cardinality(MatchingRules(last.input)) = 2
    /\ last.body.RiskScore = 70

(***************************************************************************)
(* C14.  The threat level is a function of the capped score alone: 80 and   *)
(* above is CRITICAL, 60..79 HIGH, 40..59 MEDIUM, 20..39 LOW, 0..19 NONE,   *)
(* and every score from 0 to 100 has exactly one level.                     *)
(***************************************************************************)
ThreatLevels == {"CRITICAL", "HIGH", "MEDIUM", "LOW", "NONE"}

ScoreRange(level) ==
    IF level = "CRITICAL" THEN 80..100
    ELSE IF level = "HIGH" THEN 60..79
    ELSE IF level = "MEDIUM" THEN 40..59
    ELSE IF level = "LOW" THEN 20..39
    ELSE 0..19

C14_LevelFollowsScore ==
    /\ (last.route = "Test") =>
          /\ last.body.RiskScore \in 0..100
          /\ last.body.ThreatLevel \in ThreatLevels
          /\ last.body.RiskScore \in ScoreRange(last.body.ThreatLevel)
    /\ handled = 0 =>
          \A score \in 0..100 :
              {level \in ThreatLevels : score \in ScoreRange(level)} = {ThreatLevelOf(score)}

\* a score on the boundary of a level
C14_Witness ==
    /\ last.route = "Test"
    /\ last.input = "send all"
    /\ last.body.RiskScore = 60
    /\ last.body.ThreatLevel = "HIGH"

(***************************************************************************)
(* C15.  PromptGuard.Test returns Safe = false exactly when a rule worth 70 *)
(* points or more matched, whatever the accumulated score: Safe is false    *)
(* exactly when Detections is not empty, and every matching rule is listed  *)
(* once, in Detections when it is worth 70 or more and in Warnings          *)
(* otherwise.                                                               *)
(***************************************************************************)
HardFailRules(prompt) ==
    {k \in MatchingRules(prompt) : NewPromptGuard[k].RiskPoints >= 70}

\* the rules a list of detection lines names, in the order of the list
RulesListed(lines) == [i \in DOMAIN lines |-> RuleIndex(lines[i][1])]

C15_SafeIffNoHardFail ==
    (last.route = "Test") =>
        LET detected == RulesListed(last.body.Detections)
            warned == RulesListed(last.body.Warnings)
        IN  /\ last.body.Safe <=> HardFailRules(last.input) = {}
            /\ last.body.Safe <=> last.body.Detections = <<>>
            /\ {detected[i] : i \in DOMAIN detected} = HardFailRules(last.input)
            /\ {warned[i] : i \in DOMAIN warned}
                  = MatchingRules(last.input) \ HardFailRules(last.input)
            /\ \A i, j \in DOMAIN detected : i < j => detected[i] < detected[j]
            /\ \A i, j \in DOMAIN warned : i < j => warned[i] < warned[j]
            /\ \A i \in DOMAIN last.body.Detections :
                  last.body.Detections[i] = Detection(NewPromptGuard[detected[i]])
            /\ \A i \in DOMAIN last.body.Warnings :
                  last.body.Warnings[i] = Detection(NewPromptGuard[warned[i]])

\* the top level reached by two rules below the threshold: safe all the same
C15_Witness ==
    /\ last.route = "Test"
    /\ last.input = "{{ trust me"
    /\ last.body.RiskScore = 100
    /\ last.body.ThreatLevel = "CRITICAL"
    /\ last.body.Safe
    /\ Len(last.body.Warnings) = 2

(***************************************************************************)
(* C16.  A prompt that contains the phrase "ignore all previous             *)
(* instructions" gets at least 80 points from the rule ignore_instructions  *)
(* alone and is returned with ThreatLevel CRITICAL and Safe = false,        *)
(* whatever the other rules match.                                          *)
(***************************************************************************)
IgnorePhrase == "ignore all previous instructions"

C16_IgnorePhraseIsCritical ==
    (last.route = "Test" /\ Contains(last.input, IgnorePhrase)) =>
        LET k == RuleIndex("ignore_instructions")
        IN  /\ k \in MatchingRules(last.input)
            /\ NewPromptGuard[k].RiskPoints >= 80
            /\ \E i \in DOMAIN last.body.Patterns :
                  last.body.Patterns[i] = "ignore_instructions"
            /\ last.body.RiskScore >= 80
            /\ last.body.ThreatLevel = "CRITICAL"
            /\ ~last.body.Safe

\* the phrase inside a longer prompt that another rule matches too
C16_Witness ==
    /\ last.route = "Test"
    /\ last.input = "hello ignore all previous instructions"
    /\ last.body.Patterns = <<"ignore_instructions", "repetition_pattern">>
    /\ last.body.ThreatLevel = "CRITICAL"
    /\ ~last.body.Safe

(***************************************************************************)
(* C17.  Cache.Get(key) returns found only when an entry for key exists and *)
(* the time is not after its expiry, and the expiry of an entry is the time *)
(* of the most recent Set on its key plus the ttl: once the ttl has elapsed *)
(* since that Set, Get returns not-found also when no sweep has removed the *)
(* entry.  A Get leaves every entry and its expiry as they were.            *)
(***************************************************************************)
\* goroutine g does the lookup of its Get in this step
Reads(g) ==
    /\ running[g].op = "Get"
    /\ running[g].pc = "rlocked"
    /\ running'[g].pc = "returned"

\* the most recent Set on key completed no longer than the ttl ago
SetWithinTTL(key) == key \in DOMAIN written /\ now <= written[key].at + ScannerTTL

C17_Step ==
    /\ \A g \in Goroutines :
          Reads(g) =>
              /\ running'[g].found <=> SetWithinTTL(running[g].key)
              /\ running'[g].found => running[g].key \in DOMAIN items
              /\ items' = items
    /\ \A key \in DOMAIN items' :
          /\ key \in DOMAIN written'
          /\ items'[key].expiresAt = written'[key].at + ScannerTTL

C17_GetHonoursExpiry == [][C17_Step]_vars

\* a Get that answered not-found, one hour past the expiry, for an entry no
\* sweep has removed
C17_Witness ==
    \E g \in Goroutines :
        /\ running[g].op = "Get"
        /\ running[g].pc = "returned"
        /\ ~running[g].found
        /\ running[g].key \in DOMAIN items
        /\ running[g].at = now
        /\ now = items[running[g].key].expiresAt + 1

(***************************************************************************)
(* C18.  However the Sets and Gets of several goroutines on one cache       *)
(* interleave, no goroutine writes the map while another reads or writes    *)
(* it, and a Get returns not-found or one of the values that were Set on    *)
(* its key; a Get within the ttl of the Set that completed last returns the *)
(* value of that Set, and the entry expires as that Set computed.           *)
(***************************************************************************)
\* no goroutine is in the map while another one writes it
MapIsExclusive(r) ==
    \A g1, g2 \in Goroutines :
        (g1 # g2 /\ r[g1].pc = "locked") => r[g2].pc \notin {"locked", "rlocked"}

C18_Step ==
    /\ MapIsExclusive(running')
    /\ \A g \in Goroutines :
          Reads(g) =>
              LET key == running[g].key
              IN  /\ running'[g].found =>
                        /\ key \in DOMAIN written
                        /\ running'[g].value \in written[key].values
                  /\ SetWithinTTL(key) =>
                        /\ running'[g].found
                        /\ running'[g].value = written[key].value
    /\ \A key \in DOMAIN items' :
          items'[key] = [value |-> written'[key].value,
                         expiresAt |-> written'[key].at + ScannerTTL]

C18_LastWriterWins == [][C18_Step]_vars

\* two values were Set on a key, at different times; a Get found the later one
\* while the other goroutine is in a call on the same key
C18_Witness ==
    \E g1, g2 \in Goroutines :
        /\ g1 # g2
        /\ running[g1].op = "Get"
        /\ running[g1].pc = "returned"
        /\ running[g1].found
        /\ written[running[g1].key].values = Values
        /\ running[g1].value = 1
        /\ written[running[g1].key].at > 0
        /\ running[g2].op = "Set"
        /\ running[g2].key = running[g1].key
        /\ running[g2].value = 1

(***************************************************************************)
(* C19.  ContractScanner.Scan does not deduplicate the scans under way: a   *)
(* Scan that missed the cache builds its own result and stores it whatever  *)
(* another Scan stored on the key meanwhile, so that of two Scans that both *)
(* missed the entry left is the result of the one that stored last; a later *)
(* Scan of the key within the ttl returns that result.                      *)
(***************************************************************************)
\* goroutine g leaves the part of Scan after the miss in this step
Stores(g) == running[g].pc = "scanning" /\ running'[g].pc # "scanning"

\* goroutine g does the cache lookup of its Scan in this step
LooksUp(g) == running[g].pc = "idle" /\ running'[g].op = "Scan" /\ ~running'[g].err

C19_Step ==
    \A g \in Goroutines :
        /\ Stores(g) =>
              LET key == running[g].key
                  ptr == Len(heap) + 1
              IN  /\ running'[g].pc = "returned"
                  /\ running'[g].value = ptr
                  /\ Len(heap') = ptr
                  /\ ~heap'[ptr].Cached
                  /\ heap'[ptr].ScannedAt = running[g].at
                  /\ \A p \in DOMAIN heap : heap'[p] = heap[p]
                  /\ items'[key] = [value |-> ptr, expiresAt |-> now + ScannerTTL]
        /\ LooksUp(g) =>
              LET key == running'[g].key
              IN  IF SetWithinTTL(key)
                  THEN /\ running'[g].pc = "returned"
                       /\ running'[g].found
                       /\ running'[g].value = written[key].value
                       /\ heap'[running'[g].value].Cached
                  ELSE /\ running'[g].pc = "scanning"
                       /\ heap' = heap

C19_NoInFlightDeduplication == [][C19_Step]_vars

\* two scans of one contract both missed and both stored, within the ttl of
\* the first store and with different answers; a third scan was given the
\* result stored second
C19_Witness ==
    \E g1, g2 \in Goroutines :
        /\ g1 # g2
        /\ now < ScannerTTL
        /\ Len(heap) = 2
        /\ heap[1].Address = heap[2].Address
        /\ heap[1].Chain = heap[2].Chain
        /\ heap[1].RiskScore # heap[2].RiskScore
        /\ running[g2].op = "Scan" /\ running[g2].pc = "returned"
        /\ ~running[g2].found /\ running[g2].value = 2
        /\ running[g1].op = "Scan" /\ running[g1].pc = "returned"
        /\ running[g1].found /\ running[g1].value = 2
        /\ items[running[g1].key].value = 2
        /\ ~heap[1].Cached /\ heap[2].Cached

(***************************************************************************)
(* C20.  The ttl is the only eviction policy.  A sweep deletes the entries  *)
(* whose expiry has passed when it runs, all of them and no other, and      *)
(* leaves the rest as they were; a Set puts the entry of its own key and    *)
(* leaves every other entry as it was; no other step, a Get included,       *)
(* removes or changes an entry.                                             *)
(***************************************************************************)
Expired(key) == now > items[key].expiresAt

\* goroutine g does the assignment of its Set in this step
Writes(g) ==
    /\ running[g].op = "Set"
    /\ running[g].pc = "locked"
    /\ running'[g].pc = "returned"

\* the step is a round of the sweep: no goroutine moves, entries go
Sweeps == running' = running /\ DOMAIN items' # DOMAIN items

C20_Step ==
    /\ Sweeps =>
          /\ DOMAIN items' = {key \in DOMAIN items : ~Expired(key)}
          /\ \A key \in DOMAIN items' : items'[key] = items[key]
    /\ \A g \in Goroutines :
          Writes(g) =>
              /\ DOMAIN items' = DOMAIN items \cup {running[g].key}
              /\ \A key \in DOMAIN items \ {running[g].key} : items'[key] = items[key]
    /\ items' # items => (Sweeps \/ \E g \in Goroutines : Writes(g))

C20_OnlyTTLEvicts == [][C20_Step]_vars

\* a sweep has removed the expired entry of one key and kept the live entry
\* of the other
C20_Witness ==
    \E gone, kept \in Keys :
        /\ gone \in DOMAIN written
        /\ gone \notin DOMAIN items
        /\ now > written[gone].at + ScannerTTL
        /\ kept \in DOMAIN items
        /\ ~Expired(kept)
        /\ items[kept].expiresAt = written[kept].at + ScannerTTL


\* a counter of a map the collector keeps, zero while the key is absent
CounterOf(map, key) == IF key \in DOMAIN map THEN map[key] ELSE 0
StatusCounterOf(byStatus, ep, s) ==
    IF ep \in DOMAIN byStatus THEN CounterOf(byStatus[ep], s) ELSE 0

\* the endpoints and statuses the service records
RecordedEndpoints == MeteredRoutes
RecordedStatuses == {"200", "400", "402", "500"}

\* how many of the events are RecordRequest(ep, s)
RequestsRecorded(events, ep, s) ==
    Cardinality({i \in EventsOf(events, "RecordRequest") :
                    events[i].ep = ep /\ events[i].s = s})

(***************************************************************************)
(* C21.  No counter of the collector ever decreases: requestsTotal[e],      *)
(* requestsByStatus[e][s], paymentsTotal and paymentsByEndpoint[e] are in   *)
(* every step at least what they were.  A RecordRequest(e, s) adds exactly  *)
(* one to requestsTotal[e] and to requestsByStatus[e][s] and leaves the     *)
(* counters of every other endpoint and status as they were.                *)
(***************************************************************************)
C21_CountersOnlyGrow ==
    [][/\ paymentsTotal' >= paymentsTotal
       /\ \A e \in RecordedEndpoints :
            /\ CounterOf(requestsTotal', e) >= CounterOf(requestsTotal, e)
            /\ CounterOf(paymentsByEndpoint', e) >= CounterOf(paymentsByEndpoint, e)
            /\ \A s \in RecordedStatuses :
                  StatusCounterOf(requestsByStatus', e, s)
                      >= StatusCounterOf(requestsByStatus, e, s)
       /\ Serving =>
            \A e \in RecordedEndpoints :
                /\ CounterOf(requestsTotal', e)
                     = CounterOf(requestsTotal, e)
                         + Cardinality({i \in EventsOf(last'.events, "RecordRequest") :
                                           last'.events[i].ep = e})
                /\ \A s \in RecordedStatuses :
                      StatusCounterOf(requestsByStatus', e, s)
                          = StatusCounterOf(requestsByStatus, e, s)
                              + RequestsRecorded(last'.events, e, s)]_vars

\* a request is recorded for an endpoint that already counts one under
\* another status, and exactly one RecordRequest was made for it
C21_Witness ==
    /\ last # NoRequest
    /\ \E e \in RecordedEndpoints, s \in RecordedStatuses, t \in RecordedStatuses :
          /\ s # t
          /\ RequestsRecorded(last.events, e, s) = 1
          /\ Cardinality(EventsOf(last.events, "RecordRequest")) = 1
          /\ StatusCounterOf(requestsByStatus, e, t) = 1
          /\ CounterOf(requestsTotal, e) = 2


\* the durations of the RecordResponseTime calls completed for the endpoint,
\* in the order they were recorded
RecordedTimes(ep) == Completed(ep).times

\* the series the collector holds for the endpoint
SeriesOf(ep) ==
    IF ep \in DOMAIN responseTimeBuckets THEN responseTimeBuckets[ep] ELSE <<>>

\* the last k elements of a sequence
LastOf(seq, k) == SubSeq(seq, Len(seq) - k + 1, Len(seq))

(***************************************************************************)
(* C22.  After n RecordResponseTime calls for an endpoint its series is the *)
(* last min(n, 1000) recorded durations in the order they were recorded:    *)
(* never longer than 1000, the oldest sample dropped when one arrives at    *)
(* capacity, and whatever was recorded for other endpoints makes no         *)
(* difference to it.                                                        *)
(***************************************************************************)
C22_SeriesIsLastThousand ==
    \A ep \in MetricEndpoints :
        LET recorded == RecordedTimes(ep)
            n == Len(recorded)
        IN  /\ Len(SeriesOf(ep)) <= MaxSamples
            /\ SeriesOf(ep) = LastOf(recorded, IF n < MaxSamples THEN n ELSE MaxSamples)

\* more than a thousand samples were recorded for an endpoint, the last at
\* capacity, and another endpoint has a series of its own
C22_Witness ==
    /\ Len(RecordedTimes("/api/gas")) > MaxSamples
    /\ Len(SeriesOf("/api/gas")) = MaxSamples
    /\ Len(SeriesOf("/health")) = 1


\* the lines of an output with the metric name, for the endpoint
LinesOf(output, name, ep) ==
    {i \in DOMAIN output : output[i].name = name /\ output[i].endpoint = ep}

\* how many RecordRequest calls for the endpoint have completed
RequestsCompleted(ep) == Completed(ep).requests

\* the place of a bucket's label among the boundaries, +Inf after the last
BoundaryRank(le) ==
    IF le = "+Inf" THEN Len(HistogramBuckets) + 1
    ELSE CHOOSE k \in DOMAIN HistogramBuckets : HistogramBuckets[k].le = le

\* the goroutine's PrometheusFormat builds its text in this step
Renders(g) ==
    /\ running[g].op = "PrometheusFormat"
    /\ running[g].pc = "mrlocked"
    /\ running'[g].pc = "returned"

(***************************************************************************)
(* C23.  The text PrometheusFormat returns has exactly one                  *)
(* x402_requests_total line for each endpoint with at least one recorded    *)
(* request, carrying the number of requests recorded for it, and none for   *)
(* any other endpoint.  In each endpoint's histogram the bucket counts do   *)
(* not decrease as the boundary grows, and the +Inf bucket equals the       *)
(* sample count reported.                                                   *)
(***************************************************************************)
C23_RenderedCountersAndBuckets ==
    [][\A g \in Goroutines : Renders(g) =>
        LET output == running'[g].output
        IN  /\ \A i \in DOMAIN output :
                  output[i].name = "x402_requests_total" =>
                      /\ output[i].endpoint \in MetricEndpoints
                      /\ RequestsCompleted(output[i].endpoint) > 0
            /\ \A ep \in MetricEndpoints :
                  LET totals == LinesOf(output, "x402_requests_total", ep)
                      buckets == LinesOf(output, "x402_response_time_seconds_bucket", ep)
                      counts == LinesOf(output, "x402_response_time_seconds_count", ep)
                  IN  /\ Cardinality(totals) = IF RequestsCompleted(ep) > 0 THEN 1 ELSE 0
                      /\ \A i \in totals : output[i].value = RequestsCompleted(ep)
                      /\ \A i \in buckets, j \in buckets :
                            BoundaryRank(output[i].le) < BoundaryRank(output[j].le)
                                => output[i].value <= output[j].value
                      /\ \A i \in buckets : \A j \in counts :
                            output[i].le = "+Inf" => output[i].value = output[j].value
                      /\ buckets # {} =>
                            /\ Cardinality(counts) = 1
                            /\ \E i \in buckets : output[i].le = "+Inf"]_vars

\* a text was returned with a counter line for one endpoint and none for the
\* other, and with a histogram whose buckets differ
C23_Witness ==
    \E g \in Goroutines :
        /\ running[g].op = "PrometheusFormat"
        /\ running[g].pc = "returned"
        /\ LinesOf(running[g].output, "x402_requests_total", "/api/gas") # {}
        /\ LinesOf(running[g].output, "x402_requests_total", "/health") = {}
        /\ \E i, j \in LinesOf(running[g].output, "x402_response_time_seconds_bucket",
                               "/api/gas") :
              running[g].output[i].value < running[g].output[j].value


\* the sum of the values of the lines
LineValues(output, lines) == SumOver([i \in lines |-> output[i].value], lines)

\* the sum over the statuses of the endpoint's counters by status
StatusSum(ep) ==
    IF ep \in DOMAIN requestsByStatus
    THEN SumOver(requestsByStatus[ep], DOMAIN requestsByStatus[ep])
    ELSE 0

(***************************************************************************)
(* C24.  PrometheusFormat runs beside any RecordRequest, RecordPayment and  *)
(* RecordResponseTime and renders a state between complete records, never  *)
(* a record half applied: in every text rendered the requests of an         *)
(* endpoint are the sum of its requests by status, and so they are in every *)
(* state outside a record's critical section, where the total of an         *)
(* endpoint is also the number of RecordRequest calls completed for it, no  *)
(* increment of a concurrent call being lost.                               *)
(***************************************************************************)
C24_RendersBetweenRecords ==
    /\ \A g \in Goroutines :
          (running[g].op = "PrometheusFormat" /\ running[g].pc = "returned") =>
              \A ep \in MetricEndpoints :
                  LineValues(running[g].output,
                             LinesOf(running[g].output, "x402_requests_total", ep))
                    = LineValues(running[g].output,
                                 LinesOf(running[g].output,
                                         "x402_requests_by_status_total", ep))
    /\ ~MetricsWriteLocked =>
          \A ep \in MetricEndpoints :
              /\ CounterOf(requestsTotal, ep) = StatusSum(ep)
              /\ CounterOf(requestsTotal, ep) = RequestsCompleted(ep)

\* two goroutines have recorded a request each for one endpoint, under
\* different statuses, and a text rendered after them is in a caller's hands
C24_Witness ==
    /\ RequestsCompleted("/api/gas") = 2
    /\ StatusCounterOf(requestsByStatus, "/api/gas", "200") = 1
    /\ StatusCounterOf(requestsByStatus, "/api/gas", "402") = 1
    /\ \E g \in Goroutines :
          /\ running[g].op = "PrometheusFormat"
          /\ running[g].pc = "returned"
          /\ \E i \in LinesOf(running[g].output, "x402_requests_total", "/api/gas") :
                running[g].output[i].value = 2


(***************************************************************************)
(* C25.  A score result is never mutated after it has been returned: no     *)
(* step, a later Scan of the same key that hits the cache included, changes *)
(* a field of a result object that exists, be it in an earlier caller's     *)
(* hands or stored in the cache.                                            *)
(***************************************************************************)
C25_ResultsNeverMutated ==
    [][\A ptr \in DOMAIN heap : heap'[ptr] = heap[ptr]]_vars


(***************************************************************************)
(* C26.  Every call to an external collaborator made while a request is     *)
(* served (RPC, price sources, explorer and honeypot lookups) is bounded by *)
(* a timeout: no goroutine waits for an upstream without a timeout that     *)
(* will end the wait when the upstream never answers.                       *)
(***************************************************************************)
C26_UpstreamCallsBounded ==
    \A g \in Goroutines : running[g].pc = "awaiting" => running[g].value > 0


\* goroutine h can take the first step of a Get on key now
CanGet(h, key) == ENABLED (GetRLock(h) /\ running'[h].key = key)

\* the goroutines, the sweep's included, that hold c.mu for writing
Holders == {g \in DOMAIN running : running[g].pc = "locked"}

C28_RoundsHalfUp ==
    (last.route = "round") =>
        LET val == last.input[1]
            precision == last.input[2]
            scaled == 2 * val.num * Pow10(precision) + val.den
        IN  /\ ~last.body.overflow
            /\ last.body.p = Pow10(precision)
            /\ 2 * val.den * last.body.units <= scaled
            /\ scaled < 2 * val.den * (last.body.units + 1)


\* goroutine g enters Scan in this step, with an address that, lower-cased,
\* does not start with "0x"
EntersScanMalformed(g) ==
    /\ running[g].pc = "idle"
    /\ running'[g].op = "Scan"
    /\ ~HasPrefix(running'[g].address, "0x")

(***************************************************************************)
(* C29.  A Scan of an address that, lower-cased, does not start with "0x"   *)
(* returns an error, asks no upstream, and leaves the cache as it was: no   *)
(* entry is made or changed by it, from its call to its return.             *)
(***************************************************************************)
C29_FailedScanLeavesCache ==
    [][\A g \in Goroutines :
          /\ EntersScanMalformed(g) =>
                /\ running'[g].err
                /\ running'[g].pc = "returned"
                /\ items' = items
                /\ heap' = heap
          /\ (running[g].op = "Scan" /\ running[g].err /\ running'[g] # running[g]) =>
                /\ running'[g] = NoCall
                /\ items' = items
                /\ heap' = heap]_vars

\* a Scan of "abc" has failed while the cache holds the entry of an earlier Scan
C29_Witness ==
    /\ items # <<>>
    /\ \E g \in Goroutines :
          /\ running[g].op = "Scan"
          /\ running[g].address = "abc"
          /\ running[g].err
          /\ running[g].pc = "returned"


\* the results of earlier Scans of the address, in whatever letter case, on
\* the chain, made no longer than the ttl ago
ScannedWithinTTL(address, chain) ==
    {ptr \in DOMAIN heap :
        /\ heap[ptr].Chain = chain
        /\ SameIgnoringCase(heap[ptr].Address, address)
        /\ now <= heap[ptr].ScannedAt + ScannerTTL}

(***************************************************************************)
(* C30.  Scan keys the cache on the chain and the lower-cased address.  A   *)
(* Scan within the ttl of an earlier Scan of the same address on the same   *)
(* chain, in any letter case, is a cache hit: it asks no upstream, builds   *)
(* no result, and returns Cached = true with the score and ScannedAt of the *)
(* earlier Scan.  Without such an earlier Scan it builds a new result.      *)
(* Either way it neither returns nor changes an entry or a result of the    *)
(* other chain.                                                             *)
(***************************************************************************)
C30_KeyedOnChainAndLowerCase ==
    [][(Serving /\ last'.route = "Scan") =>
        LET address == last'.input[1]
            chain == last'.input[2]
            earlier == ScannedWithinTTL(address, chain)
        IN  /\ earlier # {} =>
                  /\ Len(heap') = Len(heap)
                  /\ items' = items
                  /\ last'.body.Cached
                  /\ \E ptr \in earlier :
                        /\ last'.body.RiskScore = heap[ptr].RiskScore
                        /\ last'.body.ScannedAt = heap[ptr].ScannedAt
                        /\ last'.body.Flags = heap[ptr].Flags
            /\ earlier = {} =>
                  /\ Len(heap') = Len(heap) + 1
                  /\ ~last'.body.Cached
                  /\ last'.body.ScannedAt = now
            /\ last'.body.Chain = chain
            /\ \A ptr \in DOMAIN heap : heap[ptr].Chain # chain => heap'[ptr] = heap[ptr]
            /\ \A key \in DOMAIN items :
                  heap[items[key].value].Chain # chain =>
                      key \in DOMAIN items' /\ items'[key] = items[key]]_vars

\* a Scan of the address in another letter case was answered from the cache,
\* hours after the Scan that made the entry
C30_Witness ==
    /\ last.route = "Scan"
    /\ last.body.Cached
    /\ last.input[1] # last.body.Address
    /\ last.body.ScannedAt < now

====
